---- MODULE Spec2Model ----
(***************************************************************************)
(* Numeric update/downdate of a sparse LDL' factorization (CHOLMOD Modify, *)
(* combined C/D variant): the all-paths driver NUMERIC (WDIM, r) of        *)
(* t_cholmod_updown2.c and the one-path kernels NUMERIC (WDIM, RANK) of    *)
(* t_cholmod_updown2_numkr.c (dynamic supernodal version and the SIMPLE    *)
(* reference version).                                                     *)
(*                                                                         *)
(* Floating-point values are modelled by exact rationals <<num, den>>      *)
(* (den > 0, lowest terms).  The result of a division by zero, and of any  *)
(* operation on such a result, is the single non-finite value NaN; every   *)
(* comparison with NaN is false.  A result whose numerator or denominator  *)
(* exceeds MaxAbs overflows to the non-finite value too.                   *)
(***************************************************************************)
EXTENDS Integers, Sequences, FiniteSets, TLC

(***************************************************************************)
(* Bounds of the model.                                                    *)
(***************************************************************************)
\* number of rows and columns of L
N == 5
\* largest total rank of an update (number of columns of C)
MaxRank == 2
\* number of value assignments tried for Lx, Cx and Dx
NumSeeds == 2
\* largest first row of a column of C
MaxStart == 1
\* largest numerator and denominator of a number
MaxAbs == 30000
\* largest number of entries of a column whose row loops are unrolled alone
MaxLnz == 9

(***************************************************************************)
(* Exact arithmetic.                                                       *)
(***************************************************************************)
NaN == <<0, 0>>
Zero == <<0, 1>>
One == <<1, 1>>

Abs(a) == IF a < 0 THEN -a ELSE a

RECURSIVE GCD(_, _)
GCD(a, b) == IF b = 0 THEN a ELSE GCD(b, a % b)

IsFinite(x) == x[2] # 0

\* a number in range, or NaN
InRange(x) == IF Abs(x[1]) > MaxAbs \/ x[2] > MaxAbs THEN NaN ELSE x

\* the rational n/d in lowest terms with a positive denominator
Rat(n, d) ==
    IF d = 0 THEN NaN
    ELSE LET g == GCD(Abs(n), Abs(d))
             s == IF d < 0 THEN -1 ELSE 1
         IN  InRange(<<(s * n) \div g, (s * d) \div g>>)

Int2Rat(n) == <<n, 1>>

Neg(x) == IF IsFinite(x) THEN <<-x[1], x[2]>> ELSE NaN

Mul(x, y) ==
    IF ~IsFinite(x) \/ ~IsFinite(y) THEN NaN
    ELSE IF x[1] = 0 \/ y[1] = 0 THEN Zero
    ELSE LET g1 == GCD(Abs(x[1]), y[2])
             g2 == GCD(Abs(y[1]), x[2])
         IN  InRange(<<(x[1] \div g1) * (y[1] \div g2), (x[2] \div g2) * (y[2] \div g1)>>)

Div(x, y) ==
    IF ~IsFinite(x) \/ ~IsFinite(y) \/ y[1] = 0 THEN NaN
    ELSE IF y[1] < 0 THEN Mul(x, <<-y[2], -y[1]>>)
    ELSE Mul(x, <<y[2], y[1]>>)

Add(x, y) ==
    IF ~IsFinite(x) \/ ~IsFinite(y) THEN NaN
    ELSE IF x[1] = 0 THEN y
    ELSE IF y[1] = 0 THEN x
    ELSE LET g == GCD(x[2], y[2])
         IN  Rat(x[1] * (y[2] \div g) + y[1] * (x[2] \div g), (x[2] \div g) * y[2])

Sub(x, y) == Add(x, Neg(y))

\* x < y, false when either is NaN
Lt(x, y) == IsFinite(x) /\ IsFinite(y) /\ x[1] * y[2] < y[1] * x[2]

\* x > 0
IS_GT_ZERO(x) == Lt(Zero, x)

(***************************************************************************)
(* The state: the arguments of NUMERIC (WDIM, r), its locals, and the      *)
(* locals of the kernel call in progress.                                  *)
(***************************************************************************)
VARIABLES
    WDIM,       \* compile-time width of W: 1, 2, 4 or 8
    C,          \* cholmod_sparse: [p, i, x, nz, packed]
    D,          \* cholmod_sparse with the pattern of C: [x]
    rank,       \* rank of the update/downdate
    L,          \* cholmod_factor: [p, i, x, nz]
    WC,         \* n-by-WDIM workspace, row-major
    WD,         \* n-by-WDIM workspace, row-major
    Path,       \* Path [0..npaths-1]: [start, end, wfirst, rank, ccol]
    npaths,
    mask,       \* size n, or NULL
    maskmark,
    Common,     \* [dbound]
    AlphaC,     \* double AlphaC [8]
    AlphaD,     \* double AlphaD [8]
    path,       \* loop index of the driver
    pc,         \* "scatter", "paths", "kernel", "done"
    j,          \* kernel: current column
    e,          \* kernel: last column of the path
    visited,    \* columns swept by the kernel call in progress (history)
    L0,         \* the factor on entry (history)
    Lold,       \* the factor on entry to the first call (history)
    simple,     \* what the SIMPLE version makes of the kernel call's inputs
    seq,        \* what rank-1 kernel calls in sequence make of them
    raw,        \* dj at the end of the recurrence of each column swept (history)
    phase,      \* 1: the first call of NUMERIC (WDIM, r); 2: the second
    ret,        \* what NUMERIC (WDIM, r) returns: it is void, nothing
    trace       \* the kernel calls and their iterations, in turn (history)

vars == <<WDIM, C, D, rank, L, WC, WD, Path, npaths, mask, maskmark, Common,
          AlphaC, AlphaD, path, pc, j, e, visited, L0, Lold, simple, seq, raw,
          phase, ret, trace>>

\* a null pointer
NULL == <<>>
\* the largest Int: the parent of a column without one
Int_max == 2147483647
\* an uninitialized double
Uninit == NaN


(***************************************************************************)
(* The inputs: factors whose columns have ascending row indices, the       *)
(* diagonal first, and the elimination-tree structure; sorted columns of C *)
(* (D has the pattern of C); path plans built from the elimination tree.   *)
(***************************************************************************)
\* the patterns tried: bands of width 0..N-1, an arrow, two interleaved
\* chains, and a band of width 1 with an arrow
PatternKinds == 0 .. (N + 2)

InPattern(kind, i, jj) ==
    /\ i > jj
    /\ i < N
    /\ CASE kind < N     -> i - jj <= kind
         [] kind = N     -> i = N - 1
         [] kind = N + 1 -> (i - jj) % 2 = 0
         [] OTHER        -> i = jj + 1 \/ i = N - 1

RECURSIVE SetToSeq(_)
\* the elements of a set of integers in ascending order
SetToSeq(S) ==
    IF S = {} THEN <<>>
    ELSE LET m == CHOOSE x \in S : \A y \in S : x <= y
         IN  <<m>> \o SetToSeq(S \ {m})

\* the rows of column jj, the diagonal first
ColRows(kind, jj) == <<jj>> \o SetToSeq({i \in 0 .. (N - 1) : InPattern(kind, i, jj)})

RECURSIVE ColStart(_, _)
ColStart(kind, jj) ==
    IF jj = 0 THEN 0 ELSE ColStart(kind, jj - 1) + Len(ColRows(kind, jj - 1))

\* the column that holds position p
ColOf(kind, p) == CHOOSE jj \in 0 .. (N - 1) :
    ColStart(kind, jj) <= p /\ p < ColStart(kind, jj) + Len(ColRows(kind, jj))

DiagValue(seed, jj) == Int2Rat(1 + ((seed + jj) % 3))
OffValue(seed, i, jj) == Int2Rat(((seed * (i + 2 * jj + 1)) % 4) - 1)

MakeL(kind, seed) ==
    LET nzmax == ColStart(kind, N)
    IN  [p  |-> [jj \in 0 .. N |-> ColStart(kind, jj)],
         nz |-> [jj \in 0 .. (N - 1) |-> Len(ColRows(kind, jj))],
         i  |-> [q \in 0 .. (nzmax - 1) |->
                    LET jj == ColOf(kind, q)
                    IN  ColRows(kind, jj)[q - ColStart(kind, jj) + 1]],
         x  |-> [q \in 0 .. (nzmax - 1) |->
                    LET jj == ColOf(kind, q)
                        i  == ColRows(kind, jj)[q - ColStart(kind, jj) + 1]
                    IN  IF i = jj THEN DiagValue(seed, jj)
                        ELSE OffValue(seed, i, jj)]]

\* the parent of column c in the elimination tree, as the kernel computes it
Parent(LL, c) == IF LL.nz[c] > 1 THEN LL.i[LL.p[c] + 1] ELSE Int_max

RECURSIVE PathFrom(_, _)
\* the columns from c up to the root of its tree
PathFrom(LL, c) ==
    IF c = Int_max THEN <<>> ELSE <<c>> \o PathFrom(LL, Parent(LL, c))

Range(s) == {s[q] : q \in 1 .. Len(s)}

\* rows ascending in every column, the diagonal first
RowsAscending(LL) ==
    \A c \in 0 .. (N - 1) :
        /\ LL.nz[c] >= 1
        /\ LL.i[LL.p[c]] = c
        /\ \A q \in LL.p[c] .. (LL.p[c] + LL.nz[c] - 2) : LL.i[q] < LL.i[q + 1]

ColPattern(LL, c) == {LL.i[q] : q \in LL.p[c] .. (LL.p[c] + LL.nz[c] - 1)}

\* the pattern of a column, without its diagonal and its first row, is in the
\* pattern of its parent
EtreeStructure(LL) ==
    \A c \in 0 .. (N - 1) :
        LL.nz[c] > 1 =>
            (ColPattern(LL, c) \ {c, Parent(LL, c)}) \subseteq ColPattern(LL, Parent(LL, c))


\* the values of column c of C and of D at row i
CValue(seed, c, i) == Int2Rat(((seed + c + i) % 3) - (seed % 2))
DValue(seed, c, i) == Int2Rat(((2 * seed + c + 2 * i) % 3) - 1)

\* "update": D is zero; "downdate": C is zero; "both": neither
Modes == {"update", "downdate", "both"}

\* Column ccol of C holds the diagonal and the rows of column starts[ccol+1] of
\* the factor.  An unpacked C has one unused slot after each column.
MakeC(LL, starts, seed, mode, packed) ==
    LET r      == Len(starts)
        rows(c) == [q \in 1 .. LL.nz[starts[c + 1]] |-> LL.i[LL.p[starts[c + 1]] + q - 1]]
        slack  == IF packed THEN 0 ELSE 1
        cp[c \in 0 .. r] ==
            IF c = 0 THEN 0 ELSE cp[c - 1] + Len(rows(c - 1)) + slack
        col(q) == CHOOSE c \in 0 .. (r - 1) : cp[c] <= q /\ q < cp[c + 1]
        used(q) == q - cp[col(q)] < Len(rows(col(q)))
    IN  [p      |-> cp,
         nz     |-> IF packed THEN NULL ELSE [c \in 0 .. (r - 1) |-> Len(rows(c))],
         packed |-> packed,
         i      |-> [q \in 0 .. (cp[r] - 1) |->
                        IF used(q) THEN rows(col(q))[q - cp[col(q)] + 1] ELSE 0],
         x      |-> [q \in 0 .. (cp[r] - 1) |->
                        IF ~used(q) THEN Int2Rat(7)
                        ELSE IF mode = "downdate" THEN Zero
                        ELSE CValue(seed, col(q), rows(col(q))[q - cp[col(q)] + 1])]]

MakeD(CC, LL, starts, seed, mode, packed) ==
    LET r      == Len(starts)
        col(q) == CHOOSE c \in 0 .. (r - 1) : CC.p[c] <= q /\ q < CC.p[c + 1]
        used(q) == q - CC.p[col(q)] < LL.nz[starts[col(q) + 1]]
    IN  [x |-> [q \in DOMAIN CC.x |->
                    IF ~used(q) THEN Int2Rat(7)
                    ELSE IF mode = "update" THEN Zero
                    ELSE DValue(seed, col(q), CC.i[q])]]

\* the odd rows are masked
OddMask == [i \in 0 .. (N - 1) |-> IF i % 2 = 1 THEN 1 + ((i \div 2) % 2) ELSE -1]

Last(s) == s[Len(s)]

RECURSIVE Before(_, _)
\* the elements of s before the first one in S
Before(s, S) ==
    IF s = <<>> \/ s[1] \in S THEN <<>> ELSE <<s[1]>> \o Before(Tail(s), S)

Desc(start, end, wfirst, r, ccol) ==
    [start |-> start, end |-> end, wfirst |-> wfirst, rank |-> r, ccol |-> ccol]

\* The interior descriptors for r columns of C, the first starting at row s0 and
\* the others at row s1: the columns below the place where the two paths meet
\* are swept with the columns of W of their own leaf, the rest with all r.
Interior(LL, r, s0, s1) ==
    LET p0 == PathFrom(LL, s0)
        p1 == PathFrom(LL, s1)
    IN  IF r = 1 \/ s0 = s1 THEN <<Desc(s0, Last(p0), 0, r, -1)>>
        ELSE LET own0 == Before(p0, Range(p1))
                 own1 == Before(p1, Range(p0))
                 both == SubSeq(p0, Len(own0) + 1, Len(p0))
             IN  (IF own0 = <<>> THEN <<>>
                  ELSE <<Desc(own0[1], Last(own0), 0, 1, -1)>>)
                 \o (IF own1 = <<>> THEN <<>>
                     ELSE <<Desc(own1[1], Last(own1), 1, r - 1, -1)>>)
                 \o (IF both = <<>> THEN <<>>
                     ELSE <<Desc(both[1], Last(both), 0, r, -1)>>)

\* the smallest of 1, 2, 4, 8 that holds r columns
Width(r) == IF r <= 1 THEN 1 ELSE IF r <= 2 THEN 2 ELSE IF r <= 4 THEN 4 ELSE 8

PlanKinds == {"whole", "split", "short", "empty", "norank"}

\* "split": the last descriptor is cut in two; "short": it ends at its start;
\* "empty": its start is above its end; "norank": its rank is above every WDIM
Variant(LL, descs, kind) ==
    LET d    == Last(descs)
        cols == PathFrom(LL, d.start)
        head == SubSeq(descs, 1, Len(descs) - 1)
        half == (Len(cols) + 1) \div 2
    IN  CASE kind = "split" /\ Len(cols) >= 2 ->
                head \o <<Desc(d.start, cols[half], d.wfirst, d.rank, -1),
                          Desc(cols[half + 1], d.end, d.wfirst, d.rank, -1)>>
          [] kind = "short" -> head \o <<Desc(d.start, d.start, d.wfirst, d.rank, -1)>>
          [] kind = "empty" ->
                <<IF descs[1].start < descs[1].end
                  THEN Desc(descs[1].end, descs[1].start, descs[1].wfirst,
                            descs[1].rank, -1)
                  ELSE Desc(descs[1].start, descs[1].start - 1, descs[1].wfirst,
                            descs[1].rank, -1)>> \o Tail(descs)
          [] kind = "norank" ->
                head \o <<Desc(d.start, d.end, d.wfirst, Width(MaxRank) + 1, -1)>>
          [] OTHER -> descs

\* the plan: the r leaf descriptors, then the interior ones, indexed from 0
MakePath(LL, r, s0, s1, kind) ==
    LET leaves == [c \in 1 .. r |-> Desc(-1, -1, c - 1, 1, r - c)]
        all    == leaves \o Variant(LL, Interior(LL, r, s0, s1), kind)
    IN  [q \in 0 .. (Len(all) - 1) |-> all[q + 1]]

DBounds == {Zero, Int2Rat(2)}

\* a kernel's state with W zero and alpha not set
Cur0(LL, W, A) == [L |-> LL, WC |-> W, WD |-> W, AlphaC |-> A, AlphaD |-> A]

\* the state on entry, after the locals are declared
Enter0(LL, r, s0, s1, plan, seed, mode, packed, db, m) ==
    /\ L = LL
    /\ L0 = LL
    /\ Lold = LL
    /\ rank = r
    /\ WDIM = Width(r)
    /\ C = MakeC(LL, [c \in 1 .. r |-> IF r - c = 0 THEN s0 ELSE s1], seed, mode, packed)
    /\ D = MakeD(C, LL, [c \in 1 .. r |-> IF r - c = 0 THEN s0 ELSE s1], seed, mode, packed)
    /\ Path = MakePath(LL, r, s0, s1, plan)
    /\ npaths = Cardinality(DOMAIN Path)
    /\ mask = m
    /\ maskmark = 1
    /\ Common = [dbound |-> db]
    /\ WC = [q \in 0 .. (N * WDIM - 1) |-> Zero]
    /\ WD = [q \in 0 .. (N * WDIM - 1) |-> Zero]
    /\ AlphaC = [q \in 0 .. 7 |-> Uninit]
    /\ AlphaD = [q \in 0 .. 7 |-> Uninit]
    /\ path = 0
    /\ pc = "scatter"
    /\ j = 0
    /\ e = 0
    /\ visited = {}
    /\ simple = Cur0(LL, WC, AlphaC)
    /\ seq = simple
    /\ raw = [c \in 0 .. (N - 1) |-> NULL]
    /\ phase = 1
    /\ ret = NULL
    /\ trace = <<>>

Init ==
    \E kind \in PatternKinds, seed \in 1 .. NumSeeds :
        \E LL \in {MakeL(kind, seed)} :
            \E r \in 1 .. MaxRank, s0 \in 0 .. MaxStart, s1 \in 0 .. MaxStart,
               plan \in PlanKinds, mode \in Modes, packed \in BOOLEAN,
               db \in DBounds, m \in {NULL, OddMask} :
                /\ r = 1 => s1 = s0
                /\ packed = (m = NULL)
                /\ Enter0(LL, r, s0, s1, plan, seed, mode, packed, db, m)

(***************************************************************************)
(* NUMERIC (WDIM, r): scatter C and D into WC and WD.                      *)
(***************************************************************************)
RECURSIVE ScatterColumn(_, _, _, _, _, _, _, _, _, _)
\* ScatterColumn with a slip: mask [i] <= maskmark
ScatterColumnLe(W, Wd, Ci, Cx, Dx, p, pend, col, msk, mark) ==
    IF p >= pend THEN [WC |-> W, WD |-> Wd]
    ELSE IF msk = NULL \/ msk[Ci[p]] <= mark
         THEN ScatterColumn([W EXCEPT ![col + WDIM * Ci[p]] = Cx[p]],
                            [Wd EXCEPT ![col + WDIM * Ci[p]] = Dx[p]],
                            Ci, Cx, Dx, p + 1, pend, col, msk, mark)
         ELSE ScatterColumn(W, Wd, Ci, Cx, Dx, p + 1, pend, col, msk, mark)

\* ScatterColumn with a slip: the mask is not looked at
ScatterColumnUnmasked(W, Wd, Ci, Cx, Dx, p, pend, col, msk, mark) ==
    IF p >= pend THEN [WC |-> W, WD |-> Wd]
    ELSE ScatterColumn([W EXCEPT ![col + WDIM * Ci[p]] = Cx[p]],
                       [Wd EXCEPT ![col + WDIM * Ci[p]] = Dx[p]],
                       Ci, Cx, Dx, p + 1, pend, col, msk, mark)

\* for ( ; p < pend ; p++): W (:, path) = C (:, ccol), the masked rows skipped
ScatterColumn(W, Wd, Ci, Cx, Dx, p, pend, col, msk, mark) ==
    IF p >= pend THEN [WC |-> W, WD |-> Wd]
    ELSE LET i == Ci[p]
         IN  IF msk = NULL \/ msk[i] < mark
             THEN ScatterColumn([W EXCEPT ![col + WDIM * i] = Cx[p]],
                                [Wd EXCEPT ![col + WDIM * i] = Dx[p]],
                                Ci, Cx, Dx, p + 1, pend, col, msk, mark)
             ELSE ScatterColumn(W, Wd, Ci, Cx, Dx, p + 1, pend, col, msk, mark)

\* one iteration of for (path = 0 ; path < rank ; path++)
ScatterLeaf ==
    /\ pc = "scatter"
    /\ path < rank
    /\ LET ccol == Path[path].ccol
           p    == C.p[ccol]
           pend == IF C.packed THEN C.p[ccol + 1] ELSE p + C.nz[ccol]
           w    == ScatterColumn(WC, WD, C.i, C.x, D.x, p, pend, path, mask, maskmark)
       IN  /\ WC' = w.WC
           /\ WD' = w.WD
    /\ AlphaC' = [AlphaC EXCEPT ![path] = One]
    /\ AlphaD' = [AlphaD EXCEPT ![path] = One]
    /\ path' = path + 1
    /\ UNCHANGED <<WDIM, C, D, rank, L, Path, npaths, mask, maskmark, Common,
                   pc, j, e, visited, L0, Lold, simple, seq, raw, phase, ret,
                   trace>>

\* the scatter loop ends; for (path = rank ; ...) begins
ScatterDone ==
    /\ pc = "scatter"
    /\ path >= rank
    /\ pc' = "paths"
    /\ path' = rank
    /\ UNCHANGED <<WDIM, C, D, rank, L, WC, WD, Path, npaths, mask, maskmark,
                   Common, AlphaC, AlphaD, j, e, visited, L0, Lold, simple, seq,
                   raw, phase, ret, trace>>


(***************************************************************************)
(* The kernel NUMERIC (WDIM, RANK).  A kernel works on st = [L, WC, WD,    *)
(* AlphaC, AlphaD]; its WC, WD, AlphaC and AlphaD arguments are the        *)
(* caller's arrays moved by wfirst, so it reads and writes row i, column k *)
(* of its WC at wfirst + WDIM * i + k and its AlphaC [k] at wfirst + k.    *)
(***************************************************************************)
\* CHOLMOD(dbound) (dj, Common): the diagonal entry, not below dbound
cholmod_dbound(dj, Cm) == IF Lt(dj, Cm.dbound) THEN Cm.dbound ELSE dj

\* GammaC [k] = -c / dj ; dj /= alphaC  (GammaD [k] = d / dj ; dj /= alphaD)
HalfEnd(a, dj, alpha, z) == [a |-> a, g |-> Div(z, dj), dj |-> Div(dj, alpha)]

\* dj *= aC  (dj *= aD)
HalfMul(a, dj, alpha, z) == HalfEnd(a, Mul(dj, a), alpha, z)

\* UpdateHalf with a slip: GammaC [k] = c / dj
UpdateHalfGammaSign(dj, alphaC, c) ==
    HalfMul(Add(alphaC, Div(Mul(c, c), dj)), dj, alphaC, c)

\* UpdateHalf with a slip: aC = alphaC - (c * c) / dj
UpdateHalfSubtracts(dj, alphaC, c) ==
    HalfMul(Sub(alphaC, Div(Mul(c, c), dj)), dj, alphaC, Neg(c))

\* aC = alphaC + (c * c) / dj, and the rest of the update half
UpdateHalf(dj, alphaC, c) ==
    HalfMul(Add(alphaC, Div(Mul(c, c), dj)), dj, alphaC, Neg(c))

\* DowndateHalf with a slip: aD = alphaD + (d * d) / dj
DowndateHalfAdds(dj, alphaD, d) ==
    HalfMul(Add(alphaD, Div(Mul(d, d), dj)), dj, alphaD, d)

\* DowndateHalf with a slip: aD = alphaD - d / dj
DowndateHalfNoSquare(dj, alphaD, d) ==
    HalfMul(Sub(alphaD, Div(d, dj)), dj, alphaD, d)

\* aD = alphaD - (d * d) / dj, and the rest of the downdate half
DowndateHalf(dj, alphaD, d) ==
    HalfMul(Sub(alphaD, Div(Mul(d, d), dj)), dj, alphaD, d)

RECURSIVE AlphaGammaLoop(_, _, _, _, _)
RECURSIVE AlphaGammaDown(_, _, _, _, _, _)
RECURSIVE AlphaGammaNext(_, _, _, _, _, _, _)
\* AlphaGammaLoop with a slip: the downdate half of k comes before its update
\* half
AlphaGammaLoopDownFirst(k, RANK, wfirst, a, z) ==
    IF k >= RANK THEN a
    ELSE AlphaGammaNext(k, RANK, wfirst, a, z,
            UpdateHalf(DowndateHalf(a.dj, a.AlphaD[wfirst + k], z.ZD[k]).dj,
                       a.AlphaC[wfirst + k], z.ZC[k]),
            [DowndateHalf(a.dj, a.AlphaD[wfirst + k], z.ZD[k]) EXCEPT
                !.dj = UpdateHalf(DowndateHalf(a.dj, a.AlphaD[wfirst + k], z.ZD[k]).dj,
                                  a.AlphaC[wfirst + k], z.ZC[k]).dj])

\* for (k = 0 ; k < RANK ; k++) of ALPHA_GAMMA, on a = [dj, AlphaC, AlphaD,
\* GC, GD] and z = [ZC, ZD]: the update half of k
AlphaGammaLoop(k, RANK, wfirst, a, z) ==
    IF k >= RANK THEN a
    ELSE AlphaGammaDown(k, RANK, wfirst, a, z,
                        UpdateHalf(a.dj, a.AlphaC[wfirst + k], z.ZC[k]))

\* the downdate half of k follows its update half u
AlphaGammaDown(k, RANK, wfirst, a, z, u) ==
    AlphaGammaNext(k, RANK, wfirst, a, z, u,
                   DowndateHalf(u.dj, a.AlphaD[wfirst + k], z.ZD[k]))

\* AlphaGammaNext with a slip: every k stores its alpha in AlphaC [0], AlphaD [0]
AlphaGammaNextFirst(k, RANK, wfirst, a, z, u, d) ==
    AlphaGammaLoop(k + 1, RANK, wfirst,
                   [dj     |-> d.dj,
                    AlphaC |-> [a.AlphaC EXCEPT ![wfirst] = u.a],
                    AlphaD |-> [a.AlphaD EXCEPT ![wfirst] = d.a],
                    GC     |-> [a.GC EXCEPT ![k] = u.g],
                    GD     |-> [a.GD EXCEPT ![k] = d.g]], z)

\* AlphaC [k], GammaC [k], AlphaD [k], GammaD [k] are stored; k++
AlphaGammaNext(k, RANK, wfirst, a, z, u, d) ==
    AlphaGammaLoop(k + 1, RANK, wfirst,
                   [dj     |-> d.dj,
                    AlphaC |-> [a.AlphaC EXCEPT ![wfirst + k] = u.a],
                    AlphaD |-> [a.AlphaD EXCEPT ![wfirst + k] = d.a],
                    GC     |-> [a.GC EXCEPT ![k] = u.g],
                    GD     |-> [a.GD EXCEPT ![k] = d.g]], z)

\* ClampDj with a slip: use_dbound is never set
ClampDjNever(dj, Cm) == dj

\* (use_dbound) ? (CHOLMOD(dbound) (dj, Common)) : (dj)
ClampDj(dj, Cm) == IF IS_GT_ZERO(Cm.dbound) THEN cholmod_dbound(dj, Cm) ELSE dj

\* StoreLx with a slip: the row index of the entry is overwritten too
StoreLxAndLi(LL, p, v) == [LL EXCEPT !.x[p] = v, !.i[p] = 0]

\* Lx [p] = v
StoreLx(LL, p, v) == [LL EXCEPT !.x[p] = v]

\* Dj = ... at the end of ALPHA_GAMMA, r the result of its loop
AlphaGammaStore(st, p, r, Cm) ==
    [st |-> [st EXCEPT !.L = StoreLx(@, p, ClampDj(r.dj, Cm)),
                       !.AlphaC = r.AlphaC, !.AlphaD = r.AlphaD],
     GC |-> r.GC, GD |-> r.GD, dj |-> r.dj]

\* ALPHA_GAMMA (Lx [p], AlphaC, GammaC, ZC, AlphaD, GammaD, ZD)
ALPHA_GAMMA(st, p, ZC, ZD, wfirst, RANK, Cm) ==
    AlphaGammaStore(st, p,
        AlphaGammaLoop(0, RANK, wfirst,
                       [dj |-> st.L.x[p], AlphaC |-> st.AlphaC, AlphaD |-> st.AlphaD,
                        GC |-> [k \in 0 .. (RANK - 1) |-> Uninit],
                        GD |-> [k \in 0 .. (RANK - 1) |-> Uninit]],
                       [ZC |-> ZC, ZD |-> ZD]),
        Cm)

\* Z [k] = W0 [k] for k = 0 to RANK-1, W0 the row of W
LoadRow(W, row, wfirst, RANK) ==
    [k \in 0 .. (RANK - 1) |-> W[wfirst + WDIM * row + k]]

\* StoreRow with a slip: the row is stored at column 0 of W, not at wfirst
StoreRowNoOffset(W, row, wfirst, RANK, v) ==
    [q \in DOMAIN W |->
        IF q >= WDIM * row /\ q < WDIM * row + RANK
        THEN v[q - WDIM * row] ELSE W[q]]

\* W0 [k] = v [k] for k = 0 to RANK-1
StoreRow(W, row, wfirst, RANK, v) ==
    [q \in DOMAIN W |->
        IF q >= wfirst + WDIM * row /\ q < wfirst + WDIM * row + RANK
        THEN v[q - wfirst - WDIM * row] ELSE W[q]]

\* ZeroRow with a slip: the last of the RANK entries is not cleared
ZeroRowButLast(W, row, wfirst, RANK) ==
    StoreRow(W, row, wfirst, RANK - 1, [k \in 0 .. (RANK - 2) |-> Zero])

\* W0 [k] = 0 for k = 0 to RANK-1
ZeroRow(W, row, wfirst, RANK) ==
    StoreRow(W, row, wfirst, RANK, [k \in 0 .. (RANK - 1) |-> Zero])

\* lx [c] -= G_c [k] * w, w the new value of the row's entry of W
ColStore(w, lx, g, c) == <<w, [lx EXCEPT ![c] = Sub(@, Mul(g, w))]>>

RECURSIVE ColChain(_, _, _, _, _, _)
\* one polarity of DO (k): w -= Z_c [k] * lx [c] ; lx [c] -= G_c [k] * w, for
\* the fused columns c to n in turn; wl = <<w, lx>>
ColChain(wl, Z, G, k, c, n) ==
    IF c > n THEN wl
    ELSE ColChain(ColStore(Sub(wl[1], Mul(Z[c][k], wl[2][c])), wl[2], G[c][k], c),
                  Z, G, k, c + 1, n)

RECURSIVE RowDO(_, _, _, _, _)
RECURSIVE RowDown(_, _, _, _, _, _)
RECURSIVE RowNext(_, _, _, _, _, _, _)
\* FOR_ALL_K DO (k) on one row r = [wc, wd, lx]: the row's entries of WC and
\* WD and its entries lx in the n fused columns.  The update half of k:
RowDO(k, RANK, r, Z, n) ==
    IF k >= RANK THEN r
    ELSE RowDown(k, RANK, r, Z, n, ColChain(<<r.wc[k], r.lx>>, Z.ZC, Z.GC, k, 1, n))

\* RowDown with a slip: the downdate half of k works on the lx its update half
\* has found
RowDownStale(k, RANK, r, Z, n, u) ==
    RowNext(k, RANK, r, Z, n, u, ColChain(<<r.wd[k], r.lx>>, Z.ZD, Z.GD, k, 1, n))

\* the downdate half of k works on the lx its update half u has left
RowDown(k, RANK, r, Z, n, u) ==
    RowNext(k, RANK, r, Z, n, u, ColChain(<<r.wd[k], u[2]>>, Z.ZD, Z.GD, k, 1, n))

RowNext(k, RANK, r, Z, n, u, d) ==
    RowDO(k + 1, RANK,
          [wc |-> [r.wc EXCEPT ![k] = u[1]], wd |-> [r.wd EXCEPT ![k] = d[1]],
           lx |-> d[2]],
          Z, n)

RECURSIVE StoreAll(_, _, _, _)
\* Lx [ps [c]] = lx [c] for every fused column c
StoreAll(LL, ps, lx, c) ==
    IF c > Len(ps) THEN LL ELSE StoreAll(StoreLx(LL, ps[c], lx[c]), ps, lx, c + 1)

\* the row's entries of W and of the fused columns are stored
RowStore(st, ps, i, r, wfirst, RANK) ==
    [st EXCEPT !.WC = StoreRow(@, i, wfirst, RANK, r.wc),
               !.WD = StoreRow(@, i, wfirst, RANK, r.wd),
               !.L  = StoreAll(@, ps, r.lx, 1)]

\* One row of the fused columns: the row is Li [ps [1]], its entries are
\* Lx [ps [c]]; Z holds the vectors ZC, GC, ZD, GD of the fused columns.
UpdateRow(st, ps, wfirst, RANK, Z) ==
    RowStore(st, ps, st.L.i[ps[1]],
             RowDO(0, RANK,
                   [wc |-> LoadRow(st.WC, st.L.i[ps[1]], wfirst, RANK),
                    wd |-> LoadRow(st.WD, st.L.i[ps[1]], wfirst, RANK),
                    lx |-> [c \in 1 .. Len(ps) |-> st.L.x[ps[c]]]],
                   Z, Len(ps)),
             wfirst, RANK)

RECURSIVE Advance(_, _)
\* p_c++ for the first n fused columns
Advance(ps, n) == IF n = 0 THEN ps ELSE Advance([ps EXCEPT ![n] = @ + 1], n - 1)

RECURSIVE UpdateRows(_, _, _, _, _, _)
\* UpdateRows with a slip: the last of the n rows is left out
UpdateRowsButLast(st, ps, n, wfirst, RANK, Z) ==
    IF n <= 1 THEN st
    ELSE UpdateRows(UpdateRow(st, ps, wfirst, RANK, Z),
                    Advance(ps, Len(ps)), n - 1, wfirst, RANK, Z)

\* the rows at ps, ps + 1, ..., ps + (n - 1) of the fused columns.  The
\* unrolled loops interleave the statements of their rows; the rows of a
\* column being distinct, each row's statements see only that row.
UpdateRows(st, ps, n, wfirst, RANK, Z) ==
    IF n <= 0 THEN st
    ELSE UpdateRows(UpdateRow(st, ps, wfirst, RANK, Z),
                    Advance(ps, Len(ps)), n - 1, wfirst, RANK, Z)

(***************************************************************************)
(* One iteration of for ( ; j <= e ; j = parent) of the dynamic supernodal *)
(* version.  m holds its locals: the state st, p0..p3 as ps, lnz, pend,    *)
(* j1..j3, parent, the columns swept, and Z = [ZC, GC, ZD, GD], the        *)
(* vectors ZC0.., GC0.., ZD0.., GD0.. of the fused columns in turn.        *)
(***************************************************************************)
\* p0 = Lp [j] ; lnz = Lnz [j] ; pend = p0 + lnz
Enter(st, jj) ==
    [st |-> st, ps |-> <<st.L.p[jj]>>, lnz |-> st.L.nz[jj],
     pend |-> st.L.p[jj] + st.L.nz[jj], j1 |-> Int_max, j2 |-> Int_max,
     j3 |-> Int_max, parent |-> Int_max, cols |-> <<jj>>, djs |-> <<>>,
     Z |-> [ZC |-> <<>>, GC |-> <<>>, ZD |-> <<>>, GD |-> <<>>]]

\* ZC [k] = WC [k] ; ZD [k] = WD [k] for a row of W
LoadZ(m, row, wfirst, RANK) ==
    [m EXCEPT !.Z.ZC = Append(@, LoadRow(m.st.WC, row, wfirst, RANK)),
              !.Z.ZD = Append(@, LoadRow(m.st.WD, row, wfirst, RANK))]

\* WC [k] = 0 ; WD [k] = 0 for a row of W
ZeroW(m, row, wfirst, RANK) ==
    [m EXCEPT !.st.WC = ZeroRow(@, row, wfirst, RANK),
              !.st.WD = ZeroRow(@, row, wfirst, RANK)]

\* the G vectors of fused column c and its dj are kept; p_c++
DiagStore(m, c, ag) ==
    [m EXCEPT !.st = ag.st, !.Z.GC = Append(@, ag.GC), !.Z.GD = Append(@, ag.GD),
              !.ps[c] = @ + 1, !.djs = Append(@, ag.dj)]

\* update D of fused column c: ALPHA_GAMMA (Lx [p_c], AlphaC, GC_c, ZC_c, ...)
Diag(m, c, wfirst, RANK, Cm) ==
    DiagStore(m, c, ALPHA_GAMMA(m.st, m.ps[c], m.Z.ZC[c], m.Z.ZD[c], wfirst, RANK, Cm))

\* parent = (lnz > 1) ? (Li [p0]) : Int_max
SetParent(m) ==
    [m EXCEPT !.parent = IF m.lnz > 1 THEN m.st.L.i[m.ps[1]] ELSE Int_max]

\* Lines 407-433: load and clear row j of W, update D (j,j), find the parent.
Begin(st, jj, wfirst, RANK, Cm) ==
    SetParent(Diag(ZeroW(LoadZ(Enter(st, jj), jj, wfirst, RANK), jj, wfirst, RANK),
                   1, wfirst, RANK, Cm))

\* the entries of the row of fused column c in the columns fused before it are
\* stored and their p's move on; the row of W stays in ZC_c, ZD_c
FuseStore(m, c, r) ==
    [m EXCEPT !.st.L = StoreAll(@, SubSeq(m.ps, 1, c - 1), r.lx, 1),
              !.ps = Advance(@, c - 1),
              !.Z.ZC[c] = r.wc, !.Z.ZD[c] = r.wd]

\* update L (j_c, j), ..., L (j_c, j_{c-1}), the row j_c of W held in ZC_c, ZD_c
FuseRow(m, c, RANK) ==
    FuseStore(m, c,
              RowDO(0, RANK,
                    [wc |-> m.Z.ZC[c], wd |-> m.Z.ZD[c],
                     lx |-> [q \in 1 .. (c - 1) |-> m.st.L.x[m.ps[q]]]],
                    m.Z, c - 1))

\* j1 = parent ; j2 = (lnz > 2) ? (Li [p0+1]) : Int_max ;
\* j3 = (lnz > 3) ? (Li [p0+2]) : Int_max ; p1 = Lp [j1]
SetJ(m) ==
    [m EXCEPT !.j1 = m.parent,
              !.j2 = IF m.lnz > 2 THEN m.st.L.i[m.ps[1] + 1] ELSE Int_max,
              !.j3 = IF m.lnz > 3 THEN m.st.L.i[m.ps[1] + 2] ELSE Int_max,
              !.ps = Append(@, m.st.L.p[m.parent]),
              !.cols = Append(@, m.parent)]

\* Lines 448-480: load and clear row j1 of W, update L (j1,j) and D (j1,j1).
FuseTwo(m, wfirst, RANK, Cm) ==
    Diag(FuseRow(ZeroW(LoadZ(m, m.j1, wfirst, RANK), m.j1, wfirst, RANK), 2, RANK),
         2, wfirst, RANK, Cm)

\* Lines 407-480
BeginTwo(st, jj, wfirst, RANK, Cm) ==
    FuseTwo(SetJ(Begin(st, jj, wfirst, RANK, Cm)), wfirst, RANK, Cm)

\* CanFuseTwo with a slip: parent < e
CanFuseTwoLt(LL, jj, ee) ==
    Parent(LL, jj) < ee /\ LL.nz[jj] = LL.nz[Parent(LL, jj)] + 1

\* parent <= e && lnz == Lnz [parent] + 1
CanFuseTwo(LL, jj, ee) ==
    Parent(LL, jj) <= ee /\ LL.nz[jj] = LL.nz[Parent(LL, jj)] + 1

\* j2 (n = 2) and j3 (n = 3) as lines 442 and 443 compute them
RowAfter(LL, jj, n) == IF LL.nz[jj] > n THEN LL.i[LL.p[jj] + n] ELSE Int_max

\* (j2 <= e) && (j3 <= e) && (lnz == Lnz [j2] + 2) && (lnz == Lnz [j3] + 3)
CanFuseFour(LL, jj, ee) ==
    /\ RowAfter(LL, jj, 2) <= ee
    /\ RowAfter(LL, jj, 3) <= ee
    /\ LL.nz[jj] = LL.nz[RowAfter(LL, jj, 2)] + 2
    /\ LL.nz[jj] = LL.nz[RowAfter(LL, jj, 3)] + 3

\* the outcome of an iteration: the state, the next j, the columns swept
Result(m, st, parent) ==
    [st |-> st, parent |-> parent, cols |-> m.cols, djs |-> m.djs]

RECURSIVE SingleLoop(_, _, _, _, _, _)
\* for ( ; p0 < pend ; p0 += 4): four rows of one column
SingleLoop(st, p0, pend, wfirst, RANK, Z) ==
    IF p0 >= pend THEN st
    ELSE SingleLoop(UpdateRows(st, <<p0>>, 4, wfirst, RANK, Z),
                    p0 + 4, pend, wfirst, RANK, Z)

\* SingleRows with a slip: the next column is j2, as after two fused columns
SingleRowsToJ2(m, wfirst, RANK) ==
    Result(m,
           SingleLoop(UpdateRows(m.st, m.ps, (m.lnz - 1) % 4, wfirst, RANK, m.Z),
                      m.ps[1] + ((m.lnz - 1) % 4), m.pend, wfirst, RANK, m.Z),
           m.j2)

\* SingleRows with a slip: the walk ends at a column whose dj is not positive
SingleRowsStops(m, wfirst, RANK) ==
    Result(m,
           SingleLoop(UpdateRows(m.st, m.ps, (m.lnz - 1) % 4, wfirst, RANK, m.Z),
                      m.ps[1] + ((m.lnz - 1) % 4), m.pend, wfirst, RANK, m.Z),
           IF IS_GT_ZERO(m.djs[1]) THEN m.parent ELSE Int_max)

\* switch ((lnz - 1) % 4) updates that many rows, then the loop
SingleRows(m, wfirst, RANK) ==
    Result(m,
           SingleLoop(UpdateRows(m.st, m.ps, (m.lnz - 1) % 4, wfirst, RANK, m.Z),
                      m.ps[1] + ((m.lnz - 1) % 4), m.pend, wfirst, RANK, m.Z),
           m.parent)

\* update one column of L
SweepSingle(st, jj, wfirst, RANK, Cm) ==
    SingleRows(Begin(st, jj, wfirst, RANK, Cm), wfirst, RANK)

RECURSIVE DualLoop(_, _, _, _, _, _)
\* for ( ; p0 < pend ; p0 += 2, p1 += 2): two rows of two columns
DualLoop(st, ps, pend, wfirst, RANK, Z) ==
    IF ps[1] >= pend THEN st
    ELSE DualLoop(UpdateRows(st, ps, 2, wfirst, RANK, Z),
                  Advance(Advance(ps, 2), 2), pend, wfirst, RANK, Z)

\* DualRows with a slip: parent = j1
DualRowsParentJ1(m, wfirst, RANK) ==
    Result(m,
           DualLoop(UpdateRows(m.st, m.ps, (m.lnz - 2) % 2, wfirst, RANK, m.Z),
                    <<m.ps[1] + ((m.lnz - 2) % 2), m.ps[2] + ((m.lnz - 2) % 2)>>,
                    m.pend, wfirst, RANK, m.Z),
           m.j1)

\* parent = j2 ; the cleanup iteration if ((lnz - 2) % 2), then the loop
DualRows(m, wfirst, RANK) ==
    Result(m,
           DualLoop(UpdateRows(m.st, m.ps, (m.lnz - 2) % 2, wfirst, RANK, m.Z),
                    <<m.ps[1] + ((m.lnz - 2) % 2), m.ps[2] + ((m.lnz - 2) % 2)>>,
                    m.pend, wfirst, RANK, m.Z),
           m.j2)

\* update 2 columns of L
SweepDual(st, jj, wfirst, RANK, Cm) ==
    DualRows(BeginTwo(st, jj, wfirst, RANK, Cm), wfirst, RANK)

\* SetQuad with a slip: parent = Li [p0+1], which is j3
SetQuadParentJ3(m) ==
    [m EXCEPT !.parent = IF m.lnz > 3 THEN m.st.L.i[m.ps[1] + 1] ELSE Int_max,
              !.ps = @ \o <<m.st.L.p[m.j2], m.st.L.p[m.j3]>>,
              !.cols = @ \o <<m.j2, m.j3>>]

\* parent = (lnz > 4) ? (Li [p0+2]) : Int_max ; p2 = Lp [j2] ; p3 = Lp [j3]
SetQuad(m) ==
    [m EXCEPT !.parent = IF m.lnz > 4 THEN m.st.L.i[m.ps[1] + 2] ELSE Int_max,
              !.ps = @ \o <<m.st.L.p[m.j2], m.st.L.p[m.j3]>>,
              !.cols = @ \o <<m.j2, m.j3>>]

\* LoadFour with a slip: row j3 of W is loaded and not cleared
LoadFourKeepJ3(m, wfirst, RANK) ==
    ZeroW(LoadZ(LoadZ(m, m.j2, wfirst, RANK), m.j3, wfirst, RANK), m.j2, wfirst, RANK)

\* Lines 506-532: ZC2, ZD2 and ZC3, ZD3 are loaded, then rows j2 and j3 cleared
LoadFour(m, wfirst, RANK) ==
    ZeroW(ZeroW(LoadZ(LoadZ(m, m.j2, wfirst, RANK), m.j3, wfirst, RANK),
                m.j2, wfirst, RANK),
          m.j3, wfirst, RANK)

\* Lines 498-582: update L (j2,j), L (j2,j1), D (j2,j2), L (j3,j), L (j3,j1),
\* L (j3,j2), D (j3,j3)
FuseFour(m, wfirst, RANK, Cm) ==
    Diag(FuseRow(Diag(FuseRow(LoadFour(SetQuad(m), wfirst, RANK), 3, RANK),
                      3, wfirst, RANK, Cm),
                 4, RANK),
         4, wfirst, RANK, Cm)

RECURSIVE QuadLoop(_, _, _, _, _, _)
\* for ( ; p0 < pend ; p0++, p1++, p2++, p3++): one row of four columns
QuadLoop(st, ps, pend, wfirst, RANK, Z) ==
    IF ps[1] >= pend THEN st
    ELSE QuadLoop(UpdateRow(st, ps, wfirst, RANK, Z),
                  Advance(ps, 4), pend, wfirst, RANK, Z)

QuadRows(m, wfirst, RANK) ==
    Result(m, QuadLoop(m.st, m.ps, m.pend, wfirst, RANK, m.Z), m.parent)

\* update 4 columns of L
SweepQuad(st, jj, wfirst, RANK, Cm) ==
    QuadRows(FuseFour(BeginTwo(st, jj, wfirst, RANK, Cm), wfirst, RANK, Cm),
             wfirst, RANK)

\* the iteration the code takes at column jj
DynamicStep(st, jj, ee, wfirst, RANK, Cm) ==
    IF CanFuseTwo(st.L, jj, ee)
    THEN IF CanFuseFour(st.L, jj, ee)
         THEN SweepQuad(st, jj, wfirst, RANK, Cm)
         ELSE SweepDual(st, jj, wfirst, RANK, Cm)
    ELSE SweepSingle(st, jj, wfirst, RANK, Cm)

RECURSIVE Dynamic(_, _, _, _, _, _)
RECURSIVE DynamicNext(_, _, _, _, _)
\* a whole call of the dynamic supernodal NUMERIC (WDIM, RANK): the state it
\* leaves
Dynamic(st, jj, ee, wfirst, RANK, Cm) ==
    IF jj > ee THEN st
    ELSE DynamicNext(DynamicStep(st, jj, ee, wfirst, RANK, Cm), ee, wfirst, RANK, Cm)

\* j = parent
DynamicNext(r, ee, wfirst, RANK, Cm) == Dynamic(r.st, r.parent, ee, wfirst, RANK, Cm)

RECURSIVE Sequential(_, _, _, _, _, _, _)
\* NUMERIC (WDIM, 1) called RANK times on the same path, call c with column
\* wfirst + c of W and of alpha
Sequential(st, jj, ee, wfirst, c, RANK, Cm) ==
    IF c >= RANK THEN st
    ELSE Sequential(Dynamic(st, jj, ee, wfirst + c, 1, Cm), jj, ee, wfirst, c + 1, RANK, Cm)

(***************************************************************************)
(* The SIMPLE version of NUMERIC (WDIM, RANK).                             *)
(***************************************************************************)
\* wc (j,k) and wd (j,k) as the row loop reads them, with GammaC and GammaD
SimpleZ(st, jj, wfirst, RANK, GC, GD) ==
    [ZC |-> <<LoadRow(st.WC, jj, wfirst, RANK)>>, GC |-> <<GC>>,
     ZD |-> <<LoadRow(st.WD, jj, wfirst, RANK)>>, GD |-> <<GD>>]

RECURSIVE SimpleLoop(_, _, _, _, _, _, _, _)
\* for (p = Lp [j] + 1 ; p < Lp [j] + Lnz [j] ; p++)
SimpleLoop(st, jj, p, wfirst, RANK, GC, GD, pend) ==
    IF p >= pend THEN st
    ELSE SimpleLoop(UpdateRow(st, <<p>>, wfirst, RANK,
                              SimpleZ(st, jj, wfirst, RANK, GC, GD)),
                    jj, p + 1, wfirst, RANK, GC, GD, pend)

\* clear workspace C, D: wc (j,k) = 0 ; wd (j,k) = 0
SimpleClear(st, jj, wfirst, RANK) ==
    [st EXCEPT !.WC = ZeroRow(@, jj, wfirst, RANK),
               !.WD = ZeroRow(@, jj, wfirst, RANK)]

\* update column j of L, ag the outcome of ALPHA_GAMMA
SimpleSweep(ag, jj, wfirst, RANK) ==
    SimpleClear(SimpleLoop(ag.st, jj, ag.st.L.p[jj] + 1, wfirst, RANK, ag.GC, ag.GD,
                           ag.st.L.p[jj] + ag.st.L.nz[jj]),
                jj, wfirst, RANK)

\* one iteration of the loop of the SIMPLE version
SimpleColumn(st, jj, wfirst, RANK, Cm) ==
    SimpleSweep(ALPHA_GAMMA(st, st.L.p[jj], LoadRow(st.WC, jj, wfirst, RANK),
                            LoadRow(st.WD, jj, wfirst, RANK), wfirst, RANK, Cm),
                jj, wfirst, RANK)

RECURSIVE Simple(_, _, _, _, _, _)
\* for ( ; j <= e ; j = (Lnz [j] > 1) ? (Li [Lp [j] + 1]) : Int_max)
Simple(st, jj, ee, wfirst, RANK, Cm) ==
    IF jj > ee THEN st
    ELSE Simple(SimpleColumn(st, jj, wfirst, RANK, Cm), Parent(st.L, jj), ee,
                wfirst, RANK, Cm)

(***************************************************************************)
(* The kernel call in progress.                                            *)
(***************************************************************************)
\* the state a kernel works on
Cur == [L |-> L, WC |-> WC, WD |-> WD, AlphaC |-> AlphaC, AlphaD |-> AlphaD]

\* the RANK of the kernel the driver calls: WDIM 1 has no switch
KernelRank(w, r) == IF w = 1 THEN 1 ELSE r

KernelVars == <<WDIM, C, D, rank, Path, npaths, mask, maskmark, Common, path, pc,
                e, L0, simple, seq, phase, Lold, ret>>

\* the unclamped dj of the columns cols, in turn
RawOf(old, cols, djs) ==
    [c \in DOMAIN old |->
        IF \E q \in 1 .. Len(cols) : cols[q] = c
        THEN djs[CHOOSE q \in 1 .. Len(cols) : cols[q] = c] ELSE old[c]]

\* an entry of the history: the kernel call of the descriptor in hand, or an
\* iteration of it that has swept the columns cols
Event(op, cols) ==
    [op |-> op, path |-> path, rank |-> KernelRank(WDIM, Path[path].rank),
     start |-> Path[path].start, end |-> Path[path].end,
     wfirst |-> Path[path].wfirst, cols |-> cols]

\* j = parent, at the end of an iteration with outcome r
Iterate(r) ==
    /\ L' = r.st.L
    /\ WC' = r.st.WC
    /\ WD' = r.st.WD
    /\ AlphaC' = r.st.AlphaC
    /\ AlphaD' = r.st.AlphaD
    /\ j' = r.parent
    /\ visited' = visited \cup Range(r.cols)
    /\ raw' = RawOf(raw, r.cols, r.djs)
    /\ trace' = Append(trace, Event("sweep", r.cols))
    /\ UNCHANGED KernelVars

\* one iteration of for ( ; j <= e ; j = parent): one column
KernelSingle ==
    /\ pc = "kernel"
    /\ j <= e
    /\ ~CanFuseTwo(L, j, e)
    /\ Iterate(SweepSingle(Cur, j, Path[path].wfirst,
                           KernelRank(WDIM, Path[path].rank), Common))

\* one iteration: two columns
KernelDual ==
    /\ pc = "kernel"
    /\ j <= e
    /\ CanFuseTwo(L, j, e)
    /\ ~CanFuseFour(L, j, e)
    /\ Iterate(SweepDual(Cur, j, Path[path].wfirst,
                         KernelRank(WDIM, Path[path].rank), Common))

\* one iteration: four columns
KernelQuad ==
    /\ pc = "kernel"
    /\ j <= e
    /\ CanFuseTwo(L, j, e)
    /\ CanFuseFour(L, j, e)
    /\ Iterate(SweepQuad(Cur, j, Path[path].wfirst,
                         KernelRank(WDIM, Path[path].rank), Common))

\* KernelReturn with a slip: path += 2
KernelReturnSkipsOne ==
    /\ pc = "kernel"
    /\ j > e
    /\ pc' = "paths"
    /\ path' = path + 2
    /\ UNCHANGED <<WDIM, C, D, rank, L, WC, WD, Path, npaths, mask, maskmark,
                   Common, AlphaC, AlphaD, j, e, visited, L0, simple, seq, raw,
                   phase, Lold, ret, trace>>

\* the kernel returns: path++
KernelReturn ==
    /\ pc = "kernel"
    /\ j > e
    /\ pc' = "paths"
    /\ path' = path + 1
    /\ UNCHANGED <<WDIM, C, D, rank, L, WC, WD, Path, npaths, mask, maskmark,
                   Common, AlphaC, AlphaD, j, e, visited, L0, simple, seq, raw,
                   phase, Lold, ret, trace>>

(***************************************************************************)
(* NUMERIC (WDIM, r): the numeric update/downdate of the paths.            *)
(***************************************************************************)
\* the switch of this WDIM has a case for rank r (WDIM 1 has no switch)
HasKernel(w, r) == w = 1 \/ (r >= 1 /\ r <= w)

\* one iteration of for (path = rank ; path < npaths ; path++): the call of
\* NUMERIC (WDIM, RANK) (j, e, aC, aD, WC1, WD1, L, Common)
Dispatch ==
    /\ pc = "paths"
    /\ path < npaths
    /\ HasKernel(WDIM, Path[path].rank)
    /\ pc' = "kernel"
    /\ j' = Path[path].start
    /\ e' = Path[path].end
    /\ visited' = {}
    /\ simple' = Simple(Cur, Path[path].start, Path[path].end, Path[path].wfirst,
                        KernelRank(WDIM, Path[path].rank), Common)
    /\ seq' = Sequential(Cur, Path[path].start, Path[path].end, Path[path].wfirst,
                         0, KernelRank(WDIM, Path[path].rank), Common)
    /\ trace' = Append(trace, Event("call", <<>>))
    /\ UNCHANGED <<WDIM, C, D, rank, L, WC, WD, Path, npaths, mask, maskmark,
                   Common, AlphaC, AlphaD, path, L0, raw, phase, Lold, ret>>

\* Skip with a slip: a rank without a case ends the loop
SkipAndStop ==
    /\ pc = "paths"
    /\ path < npaths
    /\ ~HasKernel(WDIM, Path[path].rank)
    /\ pc' = "done"
    /\ UNCHANGED <<WDIM, C, D, rank, L, WC, WD, Path, npaths, mask, maskmark,
                   Common, AlphaC, AlphaD, path, j, e, visited, L0, simple, seq,
                   raw, phase, Lold, ret, trace>>

\* one iteration of the loop whose Path [path].rank has no case in the switch:
\* no kernel is called; path++
Skip ==
    /\ pc = "paths"
    /\ path < npaths
    /\ ~HasKernel(WDIM, Path[path].rank)
    /\ path' = path + 1
    /\ UNCHANGED <<WDIM, C, D, rank, L, WC, WD, Path, npaths, mask, maskmark,
                   Common, AlphaC, AlphaD, pc, j, e, visited, L0, simple, seq,
                   raw, phase, Lold, ret, trace>>

\* Return with a slip: the loop is left as soon as a D (j,j) is not positive
ReturnOnNonPositive ==
    /\ pc = "paths"
    /\ \/ path >= npaths
       \/ \E c \in 0 .. (N - 1) : raw[c] # NULL /\ ~IS_GT_ZERO(L.x[L.p[c]])
    /\ pc' = "done"
    /\ ret' = NULL
    /\ UNCHANGED <<WDIM, C, D, rank, L, WC, WD, Path, npaths, mask, maskmark,
                   Common, AlphaC, AlphaD, path, j, e, visited, L0, simple, seq,
                   raw, phase, Lold, trace>>

\* the loop ends and NUMERIC (WDIM, r) returns
Return ==
    /\ pc = "paths"
    /\ path >= npaths
    /\ pc' = "done"
    /\ ret' = NULL
    /\ UNCHANGED <<WDIM, C, D, rank, L, WC, WD, Path, npaths, mask, maskmark,
                   Common, AlphaC, AlphaD, path, j, e, visited, L0, simple, seq,
                   raw, phase, Lold, trace>>

\* every entry of W is zero
IsZero(W) == \A q \in DOMAIN W : W[q] = Zero

\* The caller calls NUMERIC (WDIM, r) a second time on the factor the first
\* call has left, with C and D exchanged and the same paths: what the first
\* call has added it takes away, and the reverse.  W is zero on entry.
Again ==
    /\ pc = "done"
    /\ phase = 1
    /\ IsZero(WC)
    /\ IsZero(WD)
    /\ phase' = 2
    /\ C' = [C EXCEPT !.x = D.x]
    /\ D' = [D EXCEPT !.x = C.x]
    /\ L0' = L
    /\ AlphaC' = [q \in 0 .. 7 |-> Uninit]
    /\ AlphaD' = [q \in 0 .. 7 |-> Uninit]
    /\ path' = 0
    /\ pc' = "scatter"
    /\ visited' = {}
    /\ raw' = [c \in DOMAIN raw |-> NULL]
    /\ trace' = <<>>
    /\ UNCHANGED <<WDIM, rank, L, WC, WD, Path, npaths, mask, maskmark, Common,
                   j, e, simple, seq, Lold, ret>>

Next ==
    \/ ScatterLeaf
    \/ ScatterDone
    \/ Dispatch
    \/ Skip
    \/ KernelSingle
    \/ KernelDual
    \/ KernelQuad
    \/ KernelReturn
    \/ Return
    \/ Again

Spec == Init /\ [][Next]_vars

(***************************************************************************)
(* Properties.                                                             *)
(***************************************************************************)
RECURSIVE WalkFrom(_, _, _)
\* the columns a kernel call sweeps from column c up to column ee
WalkFrom(LL, c, ee) ==
    IF c > ee THEN <<>> ELSE <<c>> \o WalkFrom(LL, Parent(LL, c), ee)

RECURSIVE SweptFor(_, _)
\* the columns swept, in turn, with column k of W in the slice, by the
\* descriptors q, q + 1, ..., npaths - 1
SweptFor(k, q) ==
    IF q >= npaths THEN <<>>
    ELSE (IF /\ HasKernel(WDIM, Path[q].rank)
             /\ Path[q].wfirst <= k
             /\ k < Path[q].wfirst + KernelRank(WDIM, Path[q].rank)
          THEN WalkFrom(L, Path[q].start, Path[q].end) ELSE <<>>)
         \o SweptFor(k, q + 1)

\* the rows of column ccol of C
CRows(ccol) ==
    {C.i[p] : p \in C.p[ccol] ..
                    ((IF C.packed THEN C.p[ccol + 1] ELSE C.p[ccol] + C.nz[ccol]) - 1)}

\* A valid plan: the factor has the elimination-tree structure, the rows of
\* each column of C lie on the path from its first row to the root, and the
\* interior descriptors whose slice holds that column of W sweep exactly
\* that path, from the first row to the root.
ValidPlan ==
    /\ RowsAscending(L)
    /\ EtreeStructure(L)
    /\ \A k \in 0 .. (rank - 1) :
        /\ CRows(Path[k].ccol) \subseteq Range(PathFrom(L, C.i[C.p[Path[k].ccol]]))
        /\ SweptFor(k, rank) = PathFrom(L, C.i[C.p[Path[k].ccol]])

\* C1: Lp, Li and Lnz are the same in every state of the call as on entry:
\* only Lx is written.
PatternPreserved == L.p = L0.p /\ L.i = L0.i /\ L.nz = L0.nz

\* a call has returned and has changed Lx
PatternPreservedWitness == pc = "done" /\ L.x # L0.x

\* C2 as stated: whatever the inputs, W is zero when the call returns.
CleanForAllInputs == pc = "done" => IsZero(WC) /\ IsZero(WD)

\* C2, amended: when the call returns on a valid plan, every entry of WC and
\* of WD is zero.
CleanOnReturn == (pc = "done" /\ ValidPlan) => IsZero(WC) /\ IsZero(WD)

\* a call on a valid plan has returned, and has changed Lx
CleanOnReturnWitness == pc = "done" /\ ValidPlan /\ L.x # L0.x

\* the slice of row c of W that the kernel call in progress works on is zero
SliceZero(c) ==
    \A k \in 0 .. (KernelRank(WDIM, Path[path].rank) - 1) :
        /\ WC[Path[path].wfirst + WDIM * c + k] = Zero
        /\ WD[Path[path].wfirst + WDIM * c + k] = Zero

\* C3: from the iteration that sweeps a column (as j, j1, j2 or j3) until the
\* kernel call returns, the slots of the call's slice in that row of WC and WD
\* are zero.
SelfCleaning == pc = "kernel" => \A c \in visited : SliceZero(c)

\* a kernel call is about to return after sweeping fused columns, Lx changed
SelfCleaningWitness ==
    pc = "kernel" /\ j > e /\ Cardinality(visited) >= 4 /\ L.x # L0.x

\* the kernel call in progress is about to return
Returning == pc = "kernel" /\ j > e

\* C4: when a kernel call returns, Lx (the diagonal D with it), WC, WD, AlphaC
\* and AlphaD are what the SIMPLE version makes of the call's inputs.
FusionEquivalence == Returning => Cur = simple

\* a call that has fused columns is about to return, and has changed Lx
FusionEquivalenceWitness ==
    /\ Returning
    /\ \E c \in visited : CanFuseTwo(L, c, e)
    /\ Cardinality(visited) >= 4
    /\ L.x # L0.x

\* every entry is a number
AllFinite(f) == \A q \in DOMAIN f : IsFinite(f[q])

\* C5 as stated: a kernel call of rank k leaves the Lx (and D, which Lx holds)
\* that k calls of rank 1 in sequence leave; compared where every entry of
\* both is a number.
RankEquivalenceFinite ==
    (Returning /\ AllFinite(L.x) /\ AllFinite(seq.L.x)) => L.x = seq.L.x

\* C5, amended: with dbound disabled, a kernel call of rank k leaves the Lx
\* (and D, which Lx holds) that k calls of rank 1 in sequence leave.
RankEquivalence == (Returning /\ ~IS_GT_ZERO(Common.dbound)) => L.x = seq.L.x

\* a call of rank 2 with dbound disabled is about to return with numbers in
\* Lx, having swept several columns and changed Lx
RankEquivalenceWitness ==
    /\ Returning
    /\ KernelRank(WDIM, Path[path].rank) = 2
    /\ ~IS_GT_ZERO(Common.dbound)
    /\ AllFinite(L.x)
    /\ AllFinite(seq.L.x)
    /\ Cardinality(visited) >= 3
    /\ L.x # L0.x

\* the entry (i, c) of the unit lower triangular matrix of the factor LL
Lentry(LL, i, c) ==
    IF i = c THEN One
    ELSE IF \E q \in (LL.p[c] + 1) .. (LL.p[c] + LL.nz[c] - 1) : LL.i[q] = i
         THEN LL.x[CHOOSE q \in (LL.p[c] + 1) .. (LL.p[c] + LL.nz[c] - 1) : LL.i[q] = i]
         ELSE Zero

RECURSIVE LDLt(_, _, _, _)
\* the entry (i, k) of L D L', summed over the columns 0 .. c
LDLt(LL, i, k, c) ==
    IF c < 0 THEN Zero
    ELSE Add(LDLt(LL, i, k, c - 1),
             Mul(Mul(Lentry(LL, i, c), LL.x[LL.p[c]]), Lentry(LL, k, c)))

\* the entry (i, col) of the sparse matrix with the pattern of C and values x
Centry(x, i, col) ==
    IF \E q \in C.p[col] .. (C.p[col] + Cardinality(CRows(col)) - 1) : C.i[q] = i
    THEN x[CHOOSE q \in C.p[col] .. (C.p[col] + Cardinality(CRows(col)) - 1) : C.i[q] = i]
    ELSE Zero

RECURSIVE CCtDDt(_, _, _)
\* the entry (i, k) of C C' - D D', summed over the columns 0 .. col
CCtDDt(i, k, col) ==
    IF col < 0 THEN Zero
    ELSE Add(CCtDDt(i, k, col - 1),
             Sub(Mul(Centry(C.x, i, col), Centry(C.x, k, col)),
                 Mul(Centry(D.x, i, col), Centry(D.x, k, col))))

\* the entry (i, k) of Lnew Dnew Lnew' and of Lold Dold Lold' + C C' - D D'
NewProduct(i, k) == LDLt(L, i, k, N - 1)

OldProduct(i, k) == Add(LDLt(L0, i, k, N - 1), CCtDDt(i, k, rank - 1))

\* the two matrices agree in every entry that is a number within MaxAbs
Identity ==
    \A i \in 0 .. (N - 1) : \A k \in 0 .. i :
        (IsFinite(NewProduct(i, k)) /\ IsFinite(OldProduct(i, k)))
            => NewProduct(i, k) = OldProduct(i, k)

\* every entry of the two matrices is a number within MaxAbs
Representable ==
    \A i \in 0 .. (N - 1) : \A k \in 0 .. i :
        IsFinite(NewProduct(i, k)) /\ IsFinite(OldProduct(i, k))

\* C6: after the call on a valid plan, with dbound disabled, no mask and no
\* division by zero, Lnew Dnew Lnew' = Lold Dold Lold' + C C' - D D'.
FactorizationIdentity ==
    (pc = "done" /\ ValidPlan /\ mask = NULL /\ ~IS_GT_ZERO(Common.dbound)
        /\ AllFinite(L.x)) => Identity

\* such a call has returned, with C and D not zero and Lx changed
FactorizationIdentityWitness ==
    /\ pc = "done" /\ ValidPlan /\ mask = NULL /\ ~IS_GT_ZERO(Common.dbound)
    /\ AllFinite(L.x)
    /\ Representable
    /\ rank = 2
    /\ \E q \in DOMAIN C.x : C.x[q] # Zero /\ D.x[q] # Zero
    /\ \E q \in DOMAIN L.x : L.x[q] # L0.x[q] /\ L.i[q] # 0 /\ L.p[L.i[q]] # q

\* the diagonal of the factor LL is positive
PositiveD(LL) == \A c \in 0 .. (N - 1) : IS_GT_ZERO(LL.x[LL.p[c]])

\* the second call has returned, the first an update by C, the second a
\* downdate by the same C
RoundTrip ==
    /\ pc = "done"
    /\ phase = 2
    /\ \A q \in DOMAIN C.x : C.x[q] = Zero
    /\ PositiveD(Lold)
    /\ AllFinite(L0.x)
    /\ AllFinite(L.x)

DboundBelow(LL) ==
    ~IS_GT_ZERO(Common.dbound)
        \/ \A c \in 0 .. (N - 1) : ~Lt(LL.x[LL.p[c]], Common.dbound)

Dof(c) == L.x[L.p[c]]

Scattered == pc = "paths" /\ path = rank

\* row i is not masked
Unmasked(i) == mask = NULL \/ mask[i] < maskmark

\* the stored entries of the column of C of leaf k that are in row i
Stored(i, k) ==
    {p \in C.p[Path[k].ccol] ..
              ((IF C.packed THEN C.p[Path[k].ccol + 1]
                ELSE C.p[Path[k].ccol] + C.nz[Path[k].ccol]) - 1) : C.i[p] = i}

\* C9: after the scatter of a call entered with W zero, WC [w*i+path] = Cx [p]
\* and WD [w*i+path] = Dx [p] for the stored entries p of the rows i that are
\* not masked, every other slot of WC and WD is zero, and AlphaC [path] =
\* AlphaD [path] = 1 for every leaf.
ScatterWithMask ==
    Scattered =>
        /\ \A k \in 0 .. (rank - 1) : AlphaC[k] = One /\ AlphaD[k] = One
        /\ \A i \in 0 .. (N - 1) : \A k \in 0 .. (WDIM - 1) :
            IF k < rank /\ Unmasked(i) /\ Stored(i, k) # {}
            THEN \A p \in Stored(i, k) :
                    WC[WDIM * i + k] = C.x[p] /\ WD[WDIM * i + k] = D.x[p]
            ELSE WC[WDIM * i + k] = Zero /\ WD[WDIM * i + k] = Zero

\* two columns of an unpacked C have been scattered under a mask that hides
\* an entry that is not zero and lets another through
ScatterWithMaskWitness ==
    /\ Scattered
    /\ mask # NULL
    /\ rank = 2
    /\ ~C.packed
    /\ \E i \in 0 .. (N - 1) : \E k \in 0 .. 1 : \E p \in Stored(i, k) :
        ~Unmasked(i) /\ C.x[p] # Zero
    /\ \E i \in 0 .. (N - 1) : \E k \in 0 .. 1 : \E p \in Stored(i, k) :
        ~Unmasked(i) /\ D.x[p] # Zero
    /\ \E i \in 0 .. (N - 1) : \E p \in Stored(i, 1) :
        Unmasked(i) /\ C.x[p] # Zero /\ WC[WDIM * i + 1] = C.x[p]

\* row i of WC and of WD is zero
RowZero(i) ==
    \A k \in 0 .. (WDIM - 1) : WC[WDIM * i + k] = Zero /\ WD[WDIM * i + k] = Zero

\* the entries of column c of L in the rows i with mask [i] = maskmark are
\* what they were on entry
MaskedKept(c) ==
    \A q \in L.p[c] .. (L.p[c] + L.nz[c] - 1) :
        (mask # NULL /\ mask[L.i[q]] = maskmark) => L.x[q] = L0.x[q]

\* C10 as stated: the rows i with mask [i] = maskmark are zero in W after the
\* scatter, and the entries of L in those rows are never changed.
MaskedRowsUnchanged ==
    /\ (Scattered /\ mask # NULL) =>
            \A i \in 0 .. (N - 1) : mask[i] = maskmark => RowZero(i)
    /\ \A c \in 0 .. (N - 1) : MaskedKept(c)

\* C10, amended: those rows are zero in W after the scatter, and the entries
\* of L in those rows are unchanged in the columns no path has swept.
MaskFiltering ==
    /\ (Scattered /\ mask # NULL) =>
            \A i \in 0 .. (N - 1) : mask[i] = maskmark => RowZero(i)
    /\ \A c \in 0 .. (N - 1) : raw[c] = NULL => MaskedKept(c)

\* a call under a mask has returned: C had an entry that is not zero in a row
\* with mask [i] = maskmark, a column with such a row was not swept, and Lx
\* has changed
MaskFilteringWitness ==
    /\ pc = "done"
    /\ mask # NULL
    /\ \E i \in 0 .. (N - 1) : \E p \in Stored(i, 0) :
        mask[i] = maskmark /\ C.x[p] # Zero
    /\ \E c \in 0 .. (N - 1) :
        /\ raw[c] = NULL
        /\ \E q \in (L.p[c] + 1) .. (L.p[c] + L.nz[c] - 1) : mask[L.i[q]] = maskmark
    /\ L.x # L0.x

\* a D (j,j) this call has stored is a number that is not positive
NonPositive(c) == raw[c] # NULL /\ IsFinite(Dof(c)) /\ ~IS_GT_ZERO(Dof(c))

\* the columns the iterations of the kernel call of descriptor q have swept
SweptBy(q) ==
    UNION {Range(trace[t].cols) : t \in {u \in 1 .. Len(trace) : trace[u].path = q}}

EmptyDesc(q) == Path[q].start > Path[q].end

\* descriptor q has a rank that is not one of 1 .. WDIM
RankOutside(q) == Path[q].rank < 1 \/ Path[q].rank > WDIM

\* C12 as stated: a call whose plan has an interior descriptor with start > end
\* or with a rank outside 1 .. WDIM stops at that descriptor and reports it.
InvalidPlanFailsFast ==
    \A q \in rank .. (npaths - 1) :
        (pc # "scatter" /\ (EmptyDesc(q) \/ RankOutside(q))) =>
            /\ path <= q
            /\ pc = "done" => ret # NULL

\* C12, amended: while the descriptor in hand has start > end, or a rank with
\* no case in the switch, nothing of L, W, Alpha or Common is written, nothing
\* is reported and the loop does not end there; with WDIM 1 the rank is not
\* read and the kernel is called.
InvalidPlanSkipped ==
    [][(pc \in {"paths", "kernel"} /\ path < npaths) =>
            /\ (EmptyDesc(path) \/ ~HasKernel(WDIM, Path[path].rank)) =>
                    /\ UNCHANGED <<L, WC, WD, AlphaC, AlphaD, Common, ret>>
                    /\ pc' # "done"
                    /\ path' \in {path, path + 1}
            /\ (pc = "paths" /\ WDIM = 1) => pc' = "kernel"]_vars

\* a call has returned whose first interior descriptor had start > end: its
\* kernel was called and swept nothing, and a later descriptor was swept
InvalidPlanSkippedWitness ==
    /\ pc = "done"
    /\ \E q \in rank .. (npaths - 1) :
        /\ EmptyDesc(q)
        /\ \E t \in 1 .. Len(trace) : trace[t].op = "call" /\ trace[t].path = q
        /\ SweptBy(q) = {}
        /\ \E q2 \in (q + 1) .. (npaths - 1) : SweptBy(q2) # {}
        /\ L.x # L0.x
\* the iteration of the kernel this step has run
Swept == trace'[Len(trace')]

\* this step is an iteration of the kernel
Sweeping == pc = "kernel" /\ trace' # trace

RECURSIVE RatioProduct(_, _, _, _)
\* new [first] / old [first] * ... * new [first + n - 1] / old [first + n - 1]
RatioProduct(new, old, first, n) ==
    IF n = 0 THEN One
    ELSE Mul(RatioProduct(new, old, first, n - 1),
             Div(new[first + n - 1], old[first + n - 1]))

\* the call is a pure update: the entries of D are zero, and so is WD when
\* the kernels are called
PureUpdate ==
    \A k \in 0 .. (rank - 1) :
        \A q \in C.p[Path[k].ccol] ..
                  ((IF C.packed THEN C.p[Path[k].ccol + 1]
                    ELSE C.p[Path[k].ccol] + C.nz[Path[k].ccol]) - 1) :
            D.x[q] = Zero

\* C13: in a call that entered with D > 0 and whose WD is zero, an iteration
\* leaves each AlphaC [k] of its slice at or above the value it had, which is
\* at least 1; the dj each column ends with is at or above the D (j,j) it
\* had, the D (j,j) stored is that dj, clamped once if dbound is enabled, and
\* is positive; the dj of a column swept alone is its D (j,j) times the
\* ratios of the new to the old AlphaC [k].
PositiveUpdate ==
    [][(Sweeping /\ PureUpdate /\ PositiveD(L0)) =>
            /\ \A k \in Swept.wfirst .. (Swept.wfirst + Swept.rank - 1) :
                IsFinite(AlphaC'[k]) =>
                    /\ IsFinite(AlphaC[k])
                    /\ ~Lt(AlphaC[k], One)
                    /\ ~Lt(AlphaC'[k], AlphaC[k])
            /\ \A q \in 1 .. Len(Swept.cols) :
                IsFinite(raw'[Swept.cols[q]]) =>
                    /\ ~Lt(raw'[Swept.cols[q]], L.x[L.p[Swept.cols[q]]])
                    /\ L'.x[L.p[Swept.cols[q]]] =
                            IF /\ IS_GT_ZERO(Common.dbound)
                               /\ Lt(raw'[Swept.cols[q]], Common.dbound)
                            THEN Common.dbound ELSE raw'[Swept.cols[q]]
                    /\ IS_GT_ZERO(L'.x[L.p[Swept.cols[q]]])
                    /\ ~Lt(L'.x[L.p[Swept.cols[q]]], L.x[L.p[Swept.cols[q]]])
            /\ (Len(Swept.cols) = 1 /\ AllFinite(AlphaC') /\ IsFinite(raw'[j])) =>
                    raw'[j] = Mul(L.x[L.p[j]],
                                  RatioProduct(AlphaC', AlphaC, Swept.wfirst, Swept.rank))]_vars

\* a kernel call of a pure update with dbound enabled is at its third
\* iteration or later: an AlphaC [k] has grown beyond 1, one column's dj was
\* below dbound and another's above it
PositiveUpdateWitness ==
    /\ pc = "kernel"
    /\ PureUpdate
    /\ IsZero(WD)
    /\ ~IsZero(WC)
    /\ PositiveD(L0)
    /\ IS_GT_ZERO(Common.dbound)
    /\ Cardinality(visited) >= 2
    /\ \E k \in 0 .. (rank - 1) : Lt(One, AlphaC[k])
    /\ \E c \in visited : IsFinite(raw[c]) /\ Lt(raw[c], Common.dbound)
    /\ \E c \in visited : IsFinite(raw[c]) /\ Lt(Common.dbound, raw[c])
\* the slice of alpha of the kernel call in hand is 1 throughout
AlphaOne ==
    \A k \in Path[path].wfirst ..
              (Path[path].wfirst + KernelRank(WDIM, Path[path].rank) - 1) :
        AlphaC[k] = One /\ AlphaD[k] = One

RECURSIVE PartialSum(_, _, _, _, _)
\* d + wc [base]^2 - wd [base]^2 + ... over n columns of W
PartialSum(d, wc, wd, base, n) ==
    IF n = 0 THEN d
    ELSE Sub(Add(PartialSum(d, wc, wd, base, n - 1),
                 Mul(wc[base + n - 1], wc[base + n - 1])),
             Mul(wd[base + n - 1], wd[base + n - 1]))

\* no dj that ALPHA_GAMMA divides by is zero: D (j,j) plus the squares before
\* c_k, and that plus c_k^2, for each k
Regular(d, wc, wd, base, n) ==
    \A k \in 0 .. (n - 1) :
        /\ PartialSum(d, wc, wd, base, k) # Zero
        /\ Add(PartialSum(d, wc, wd, base, k), Mul(wc[base + k], wc[base + k])) # Zero

\* D (j,j) + sum c_k^2 - sum d_k^2 for the column in hand
FirstSum ==
    PartialSum(L.x[L.p[j]], WC, WD, WDIM * j + Path[path].wfirst,
               KernelRank(WDIM, Path[path].rank))

\* ALPHA_GAMMA of the column in hand divides by no zero
FirstRegular ==
    Regular(L.x[L.p[j]], WC, WD, WDIM * j + Path[path].wfirst,
            KernelRank(WDIM, Path[path].rank))

\* the 3-by-3 factor with L = I and D = d
Diagonal3(d) ==
    [p |-> [c \in 0 .. 3 |-> c], nz |-> [c \in 0 .. 2 |-> 1],
     i |-> [q \in 0 .. 2 |-> q], x |-> [q \in 0 .. 2 |-> Int2Rat(d[q + 1])]]

\* a kernel call of rank 1 on Diagonal3 (d) with n-by-1 WC and WD, alpha 1
\* and dbound disabled: the factor it leaves
Kernel3(d, wc, wd) ==
    Dynamic([L |-> Diagonal3(d),
             WC |-> [q \in 0 .. 2 |-> Int2Rat(wc[q + 1])],
             WD |-> [q \in 0 .. 2 |-> Int2Rat(wd[q + 1])],
             AlphaC |-> [q \in 0 .. 7 |-> One],
             AlphaD |-> [q \in 0 .. 7 |-> One]],
            0, 0, 0, 1, [dbound |-> Zero]).L

\* C14 as stated: an iteration entered with the alphas of its slice 1 and
\* dbound disabled leaves D (j,j) + sum c_k^2 - sum d_k^2 as the diagonal of
\* its first column j, c_k and d_k row j of WC and WD; compared unless the
\* arithmetic has left the range of the numbers.
FirstDiagonalAlways ==
    [][(Sweeping /\ AlphaOne /\ ~IS_GT_ZERO(Common.dbound)
        /\ ~(FirstRegular /\ ~IsFinite(L'.x[L.p[j]]))) =>
            L'.x[L.p[j]] = FirstSum]_vars

\* C14, amended: the same where D (j,j) and every partial sum the recurrence
\* divides by is not zero, and not a number otherwise; and the two examples:
\* L = I, D = [1,1,1] updated by (1,0,0)' gives D = [2,1,1], and D = [2,1,1]
\* downdated by it gives D = [1,1,1], L = I in both.
FirstDiagonal ==
    [][/\ (Sweeping /\ AlphaOne /\ ~IS_GT_ZERO(Common.dbound)) =>
            /\ (FirstRegular /\ IsFinite(L'.x[L.p[j]])) => L'.x[L.p[j]] = FirstSum
            /\ ~FirstRegular => L'.x[L.p[j]] = NaN
       /\ WDIM = 1 =>
            /\ Kernel3(<<1, 1, 1>>, <<1, 0, 0>>, <<0, 0, 0>>) = Diagonal3(<<2, 1, 1>>)
            /\ Kernel3(<<2, 1, 1>>, <<0, 0, 0>>, <<1, 0, 0>>) = Diagonal3(<<1, 1, 1>>)]_vars

\* the first iteration of the first kernel call, of rank 2 with dbound
\* disabled, has run: c_0, c_1 and one of d_0, d_1 were not zero and D (j,j)
\* has changed
FirstDiagonalWitness ==
    /\ pc = "kernel"
    /\ path = rank
    /\ Len(trace) = 2
    /\ Len(trace[2].cols) = 1
    /\ trace[2].rank = 2
    /\ ~IS_GT_ZERO(Common.dbound)
    /\ \A k \in trace[2].wfirst .. (trace[2].wfirst + 1) :
        IsFinite(AlphaC[k]) /\ AlphaC[k] # One /\ IsFinite(AlphaD[k])
    /\ \E k \in trace[2].wfirst .. (trace[2].wfirst + 1) : AlphaD[k] # One
    /\ IsFinite(Dof(trace[2].cols[1]))
    /\ Dof(trace[2].cols[1]) # L0.x[L.p[trace[2].cols[1]]]

\* the update half of step k: aC, and dj after dj *= aC ; dj /= alphaC
UpdateOf(dj, alphaC, c) ==
    [a |-> Add(alphaC, Div(Mul(c, c), dj)),
     dj |-> Div(Mul(dj, Add(alphaC, Div(Mul(c, c), dj))), alphaC)]

\* the downdate half of step k: aD, and dj after dj *= aD ; dj /= alphaD
DowndateOf(dj, alphaD, d) ==
    [a |-> Sub(alphaD, Div(Mul(d, d), dj)),
     dj |-> Div(Mul(dj, Sub(alphaD, Div(Mul(d, d), dj))), alphaD)]

RECURSIVE Recurrence(_, _, _, _, _)
\* the recurrence in the order of C15 from step k on, r = [dj, AlphaC, AlphaD],
\* on row base of W: the update half of k, then its downdate half, then k + 1
Recurrence(k, n, first, base, r) ==
    IF k >= n THEN r
    ELSE Recurrence(k + 1, n, first, base,
            [dj |-> DowndateOf(UpdateOf(r.dj, r.AlphaC[first + k], WC[base + k]).dj,
                               r.AlphaD[first + k], WD[base + k]).dj,
             AlphaC |-> [r.AlphaC EXCEPT ![first + k] =
                            UpdateOf(r.dj, r.AlphaC[first + k], WC[base + k]).a],
             AlphaD |-> [r.AlphaD EXCEPT ![first + k] =
                            DowndateOf(UpdateOf(r.dj, r.AlphaC[first + k],
                                                WC[base + k]).dj,
                                       r.AlphaD[first + k], WD[base + k]).a]])

\* the recurrence of the column in hand
RecurrenceAtJ ==
    Recurrence(0, KernelRank(WDIM, Path[path].rank), Path[path].wfirst,
               WDIM * j + Path[path].wfirst,
               [dj |-> L.x[L.p[j]], AlphaC |-> AlphaC, AlphaD |-> AlphaD])

\* C15: an iteration leaves as D (j,j) of its first column the dj that the
\* recurrence ends with when, for k = 0 .. rank-1 in turn, the update half of
\* k is done wholly before its downdate half; D (j,j) is that dj after the
\* last k, clamped if dbound is enabled; an iteration of one column leaves
\* the AlphaC and AlphaD of that recurrence.
RecurrenceOrder ==
    [][Sweeping =>
            /\ raw'[j] = RecurrenceAtJ.dj
            /\ L'.x[L.p[j]] = IF /\ IS_GT_ZERO(Common.dbound)
                                 /\ Lt(RecurrenceAtJ.dj, Common.dbound)
                              THEN Common.dbound ELSE RecurrenceAtJ.dj
            /\ Len(Swept.cols) = 1 =>
                    /\ AlphaC' = RecurrenceAtJ.AlphaC
                    /\ AlphaD' = RecurrenceAtJ.AlphaD]_vars

\* an iteration of one column and rank 2 has run with dbound enabled: all four
\* alphas of the slice have changed from 1, and the dj was below dbound
RecurrenceOrderWitness ==
    /\ pc = "kernel"
    /\ Len(trace) >= 2
    /\ Len(trace[Len(trace)].cols) = 1
    /\ trace[Len(trace)].rank = 2
    /\ IS_GT_ZERO(Common.dbound)
    /\ \A k \in trace[Len(trace)].wfirst .. (trace[Len(trace)].wfirst + 1) :
        /\ IsFinite(AlphaC[k]) /\ AlphaC[k] # One
        /\ IsFinite(AlphaD[k]) /\ AlphaD[k] # One
    /\ \E c \in visited : IsFinite(raw[c]) /\ Lt(raw[c], Common.dbound)
\* (Lnz [c] > 1) ? (Li [Lp [c] + 1]) : Int_max
Above(c) == IF L.nz[c] > 1 THEN L.i[L.p[c] + 1] ELSE Int_max

\* the iterations the kernel call of descriptor q has run
Iterations(q) ==
    Cardinality({t \in 1 .. Len(trace) : trace[t].op = "sweep" /\ trace[t].path = q})

\* C16: an iteration of a kernel call starts at j <= e, sweeps j
\* and, if it fuses, the columns found by following Li [Lp [c] + 1] from j,
\* each above the one before and none above e, and goes on to the column
\* found in the same way from the last, which is above it; with j > e, or
\* after a column with Lnz = 1, the call returns and sweeps no more; it
\* returns after end - start + 1 iterations at most.
PathWalk ==
    [][pc = "kernel" =>
            IF j <= e
            THEN /\ Sweeping
                 /\ pc' = "kernel"
                 /\ Swept.cols[1] = j
                 /\ \A q \in 1 .. Len(Swept.cols) : Swept.cols[q] <= e
                 /\ \A q \in 1 .. (Len(Swept.cols) - 1) :
                        /\ Swept.cols[q + 1] = Above(Swept.cols[q])
                        /\ Swept.cols[q + 1] > Swept.cols[q]
                 /\ j' = Above(Swept.cols[Len(Swept.cols)])
                 /\ j' > Swept.cols[Len(Swept.cols)]
                 /\ L.nz[Swept.cols[Len(Swept.cols)]] = 1 => j' > e
                 /\ visited' = visited \cup Range(Swept.cols)
                 /\ Iterations(path)' <= e - Path[path].start + 1
            ELSE /\ pc' = "paths"
                 /\ trace' = trace
                 /\ visited' = visited]_vars

\* a kernel call at its third iteration or later is about to return: it has
\* swept four columns or more, the last with no off-diagonal entry
PathWalkWitness ==
    /\ pc = "kernel"
    /\ j > e
    /\ j = Int_max
    /\ Cardinality(visited) >= 4
    /\ Iterations(path) >= 3
\* the n-th row below the diagonal of column j, Int_max if there is none
OffRow(n) == IF L.nz[j] > n THEN L.i[L.p[j] + n] ELSE Int_max

\* j1 <= end and Lnz [j1] = lnz - 1
DualCondition == OffRow(1) <= e /\ L.nz[OffRow(1)] = L.nz[j] - 1

\* and j2 <= end, j3 <= end, Lnz [j2] = lnz - 2, Lnz [j3] = lnz - 3
QuadCondition ==
    /\ DualCondition
    /\ OffRow(2) <= e
    /\ OffRow(3) <= e
    /\ L.nz[OffRow(2)] = L.nz[j] - 2
    /\ L.nz[OffRow(3)] = L.nz[j] - 3

\* C17: an iteration at column j sweeps j, j1, j2 and j3 together if the
\* quad condition holds, j and j1 if the dual condition holds and the quad
\* condition does not, and j alone otherwise, whatever the iterations before
\* it have done.
FusionDecision ==
    [][Sweeping =>
            Swept.cols = IF QuadCondition THEN <<j, OffRow(1), OffRow(2), OffRow(3)>>
                         ELSE IF DualCondition THEN <<j, OffRow(1)>>
                         ELSE <<j>>]_vars

\* a kernel call has run a fused iteration and an iteration of one column
\* whose parent was in the path but did not match
FusionDecisionWitness ==
    /\ pc = "kernel"
    /\ \E t \in 1 .. Len(trace), u \in 1 .. Len(trace) :
        /\ trace[t].path = path
        /\ trace[u].path = path
        /\ Len(trace[t].cols) >= 2
        /\ Len(trace[u].cols) = 1
        /\ Parent(L, trace[u].cols[1]) <= e
\* the fused columns of the iteration at j when their row loop begins: p0, p1
\* (p2, p3) are past the rows j1 (j2, j3) and pend is the end of column j
Fused ==
    IF QuadCondition
    THEN FuseFour(BeginTwo(Cur, j, Path[path].wfirst,
                           KernelRank(WDIM, Path[path].rank), Common),
                  Path[path].wfirst, KernelRank(WDIM, Path[path].rank), Common)
    ELSE BeginTwo(Cur, j, Path[path].wfirst, KernelRank(WDIM, Path[path].rank),
                  Common)

\* the fused columns of m have as many rows left as column j, with the
\* same row indices, and cols are the columns of m
RowsShared(m, cols) ==
    /\ m.cols = cols
    /\ \A c \in 1 .. Len(m.ps) :
        /\ m.pend - m.ps[1] = L.p[m.cols[c]] + L.nz[m.cols[c]] - m.ps[c]
        /\ \A q \in 0 .. (m.pend - m.ps[1] - 1) :
                L.i[m.ps[c] + q] = L.i[m.ps[1] + q]

\* C18: when an iteration fuses two or four columns of a factor with the
\* elimination-tree structure, every fused column has as many rows left as
\* column j when the row loop begins, each row of the loop has the same index
\* Li [p0] = Li [p1] (= Li [p2] = Li [p3]) in all of them, and the walk goes
\* on with the 2nd (4th) row below the diagonal of j, which is the parent of
\* the last fused column.
SharedRows ==
    [][(Sweeping /\ DualCondition /\ RowsAscending(L) /\ EtreeStructure(L)) =>
            /\ RowsShared(Fused, Swept.cols)
            /\ j' = OffRow(Len(Swept.cols))
            /\ j' = Above(Swept.cols[Len(Swept.cols)])]_vars

\* a kernel call has fused four columns with a row below them and is at
\* that row, the parent of the fourth
SharedRowsWitness ==
    /\ pc = "kernel"
    /\ j <= e
    /\ \E t \in 1 .. Len(trace) :
        /\ trace[t].path = path
        /\ Len(trace[t].cols) = 4
        /\ L.nz[trace[t].cols[1]] >= 5
        /\ j = Above(trace[t].cols[4])

\* the kernel calls made so far, in turn
IsCall(ev) == ev.op = "call"
Calls == SelectSeq(trace, IsCall)

\* the loop of the paths has taken up descriptor q
TakenUp(q) == q < path \/ (q = path /\ pc = "kernel")

\* the kernel calls so far are those of the interior descriptors taken up
\* whose rank has a case, in the order of their index and one for each, with
\* the descriptor's rank, start, end and wfirst; every iteration belongs to
\* the call made last
CallsInOrder ==
    pc # "scatter" =>
        /\ \A t \in 1 .. Len(Calls) :
            /\ Calls[t].path \in rank .. (npaths - 1)
            /\ t > 1 => Calls[t].path > Calls[t - 1].path
            /\ ~RankOutside(Calls[t].path) => Calls[t].rank = Path[Calls[t].path].rank
            /\ Calls[t].start = Path[Calls[t].path].start
            /\ Calls[t].end = Path[Calls[t].path].end
            /\ Calls[t].wfirst = Path[Calls[t].path].wfirst
        /\ \A q \in rank .. (npaths - 1) :
            (TakenUp(q) /\ HasKernel(WDIM, Path[q].rank)) <=>
                (\E t \in 1 .. Len(Calls) : Calls[t].path = q)
        /\ \A t \in 1 .. Len(trace) :
            trace[t].op = "sweep" =>
                /\ t > 1
                /\ trace[t - 1].path = trace[t].path
                /\ trace[t].cols[1] =
                        IF trace[t - 1].op = "call" THEN trace[t].start
                        ELSE Above(trace[t - 1].cols[Len(trace[t - 1].cols)])

\* column k of W and of alpha is in the slice of the call in hand
InSlice(k) ==
    /\ Path[path].wfirst <= k
    /\ k < Path[path].wfirst + KernelRank(WDIM, Path[path].rank)

\* C19: the kernel calls are those of the interior descriptors path = rank,
\* rank+1, ..., npaths-1 in that order, one for each descriptor whose rank has
\* a case and none for a leaf; the call is given start and end, and each of
\* its iterations writes W and alpha only in the columns wfirst .. wfirst +
\* rank - 1.
DispatchOrder ==
    [][/\ CallsInOrder'
       /\ (pc = "paths" /\ pc' = "kernel") =>
            /\ path' = path
            /\ j' = Path[path].start
            /\ e' = Path[path].end
       /\ Sweeping =>
            /\ \A k \in 0 .. 7 :
                ~InSlice(k) => AlphaC'[k] = AlphaC[k] /\ AlphaD'[k] = AlphaD[k]
            /\ \A q \in DOMAIN WC :
                ~InSlice(q % WDIM) => WC'[q] = WC[q] /\ WD'[q] = WD[q]
       /\ pc' = "done" => path' = npaths]_vars

\* a call with three interior descriptors has returned: three kernel calls
\* were made, of ranks 1, 1 and 2, the second with wfirst 1
DispatchOrderWitness ==
    /\ pc = "done"
    /\ npaths = rank + 3
    /\ Len(Calls) = 3
    /\ Calls[1].rank = 1
    /\ Calls[2].rank = 1
    /\ Calls[2].wfirst = 1
    /\ Calls[3].rank = 2
    /\ L.x # L0.x
\* WC [i,k] and WD [i,k] of the slice of the call in hand
WCof(i, k) == WC[WDIM * i + Path[path].wfirst + k]
WDof(i, k) == WD[WDIM * i + Path[path].wfirst + k]

\* the recurrence of the column in hand before its step k
RecurrenceBefore(k) ==
    Recurrence(0, k, Path[path].wfirst, WDIM * j + Path[path].wfirst,
               [dj |-> L.x[L.p[j]], AlphaC |-> AlphaC, AlphaD |-> AlphaD])

\* GC [k] = -zC [k] / dj, dj after dj *= aC
GammaCOf(r, alphaC, c) == Div(Neg(c), Mul(r.dj, UpdateOf(r.dj, alphaC, c).a))

\* GD [k] = zD [k] / dj, dj after the update half and dj *= aD
GammaDOf(dj, alphaD, d) == Div(d, Mul(dj, DowndateOf(dj, alphaD, d).a))

\* GC [k] and GD [k] of the column in hand
GammaCAt(k) ==
    GammaCOf(RecurrenceBefore(k), RecurrenceBefore(k).AlphaC[Path[path].wfirst + k],
             WCof(j, k))
GammaDAt(k) ==
    GammaDOf(UpdateOf(RecurrenceBefore(k).dj,
                      RecurrenceBefore(k).AlphaC[Path[path].wfirst + k],
                      WCof(j, k)).dj,
             RecurrenceBefore(k).AlphaD[Path[path].wfirst + k], WDof(j, k))

\* lx is decreased by gamma times the new w, which is kept
SerialUpLx(k, r, w) ==
    [lx |-> Sub(r.lx, Mul(GammaCAt(k), w)), wc |-> Append(r.wc, w), wd |-> r.wd]
SerialDownLx(k, r, w) ==
    [lx |-> Sub(r.lx, Mul(GammaDAt(k), w)), wc |-> r.wc, wd |-> Append(r.wd, w)]

\* W [i,k] is decreased by z [k] times the lx in hand, then lx
SerialUp(k, i, r) == SerialUpLx(k, r, Sub(WCof(i, k), Mul(WCof(j, k), r.lx)))
SerialDown(k, i, r) == SerialDownLx(k, r, Sub(WDof(i, k), Mul(WDof(j, k), r.lx)))

RECURSIVE Serial(_, _, _, _)
\* the steps k .. n-1 of row i in the order of C20, r = [lx, wc, wd]: the
\* update pair of k, then its downdate pair, then k + 1
Serial(k, n, i, r) ==
    IF k >= n THEN r
    ELSE Serial(k + 1, n, i, SerialDown(k, i, SerialUp(k, i, r)))

\* the steps of the entry p of the column in hand
SerialAt(p) ==
    Serial(0, KernelRank(WDIM, Path[path].rank), L.i[p],
           [lx |-> L.x[p], wc |-> <<>>, wd |-> <<>>])

\* C20: an iteration of one column leaves, for each entry p below the
\* diagonal with row i, the Lx [p], WC [i,k] and WD [i,k] that result when,
\* for k = 0 .. rank-1 in turn, WC [i,k] is decreased by zC [k] times lx and
\* then lx by GC [k] times the new WC [i,k], and after that WD [i,k] by
\* zD [k] times that lx and then lx by GD [k] times the new WD [i,k].
SerialSweep ==
    [][(Sweeping /\ Len(Swept.cols) = 1) =>
            \A p \in (L.p[j] + 1) .. (L.p[j] + L.nz[j] - 1) :
                /\ L'.x[p] = SerialAt(p).lx
                /\ \A k \in 0 .. (KernelRank(WDIM, Path[path].rank) - 1) :
                    /\ WC'[WDIM * L.i[p] + Path[path].wfirst + k] = SerialAt(p).wc[k + 1]
                    /\ WD'[WDIM * L.i[p] + Path[path].wfirst + k] = SerialAt(p).wd[k + 1]]_vars

\* an iteration of rank 2 has swept one column with two entries or more
\* below its diagonal: the alphas of both columns of C and of a column of D
\* have changed, and so has an entry of L below the diagonal
SerialSweepWitness ==
    /\ pc = "kernel"
    /\ Len(trace) >= 2
    /\ Len(trace[Len(trace)].cols) = 1
    /\ trace[Len(trace)].rank = 2
    /\ L.nz[trace[Len(trace)].cols[1]] >= 3
    /\ \A k \in trace[Len(trace)].wfirst .. (trace[Len(trace)].wfirst + 1) :
        IsFinite(AlphaC[k]) /\ AlphaC[k] # One /\ IsFinite(AlphaD[k])
    /\ \E k \in trace[Len(trace)].wfirst .. (trace[Len(trace)].wfirst + 1) :
        AlphaD[k] # One
    /\ \E p \in (L.p[trace[Len(trace)].cols[1]] + 1) ..
                 (L.p[trace[Len(trace)].cols[1]] + L.nz[trace[Len(trace)].cols[1]] - 1) :
        IsFinite(L.x[p]) /\ L.x[p] # L0.x[p]

\* a kernel state with the pattern of L and other values: every Lx and every
\* alpha is 1 and W is zero
Blank ==
    [L      |-> [L EXCEPT !.x = [q \in DOMAIN L.x |-> One]],
     WC     |-> [q \in DOMAIN WC |-> Zero],
     WD     |-> [q \in DOMAIN WD |-> Zero],
     AlphaC |-> [q \in 0 .. 7 |-> One],
     AlphaD |-> [q \in 0 .. 7 |-> One]]

\* the iteration at j on the values of Blank, with dbound disabled
BlankStep ==
    DynamicStep(Blank, j, e, Path[path].wfirst, KernelRank(WDIM, Path[path].rank),
                [dbound |-> Zero])

\* the slots of Lx in the columns cols
LxSlots(cols) ==
    UNION {L.p[cols[q]] .. (L.p[cols[q]] + L.nz[cols[q]] - 1) : q \in 1 .. Len(cols)}

\* the slots of W in the rows of the columns cols and the columns k of the slice
WSlots(cols) ==
    {WDIM * L.i[p] + k : p \in LxSlots(cols),
                         k \in {c \in 0 .. (WDIM - 1) : InSlice(c)}}

RECURSIVE SweptSeq(_, _)
\* the columns the iterations t, t + 1, ... of the kernel call of descriptor q
\* have swept, in turn
SweptSeq(q, t) ==
    IF t > Len(trace) THEN <<>>
    ELSE (IF trace[t].op = "sweep" /\ trace[t].path = q THEN trace[t].cols ELSE <<>>)
         \o SweptSeq(q, t + 1)

\* an alpha of the call is a number that is not positive
AlphaNonPositive ==
    \E k \in 0 .. (rank - 1) :
        \/ IsFinite(AlphaC[k]) /\ ~IS_GT_ZERO(AlphaC[k])
        \/ IsFinite(AlphaD[k]) /\ ~IS_GT_ZERO(AlphaD[k])

\* C21: whatever Lx, W, alpha and dbound hold, an iteration at j <= e sweeps
\* the columns, and goes on to the column, that the same iteration sweeps and
\* goes on to when every Lx and alpha is 1 and W is zero; it changes Lx only
\* in the slots of those columns and W only in their rows; the kernel call
\* goes on while j <= e and the loop of the paths while path < npaths, and
\* when the call returns every descriptor whose rank has a case has swept its
\* path from start to end, in turn.
ContinuesOnFailure ==
    [][/\ (pc = "kernel" /\ j <= e) =>
            /\ Sweeping
            /\ pc' = "kernel"
            /\ Swept.cols = BlankStep.cols
            /\ j' = BlankStep.parent
            /\ \A p \in DOMAIN L.x : L'.x[p] # L.x[p] => p \in LxSlots(BlankStep.cols)
            /\ \A q \in DOMAIN WC :
                (WC'[q] # WC[q] \/ WD'[q] # WD[q]) => q \in WSlots(BlankStep.cols)
       /\ (pc = "paths" /\ path < npaths) =>
            /\ pc' # "done"
            /\ IF HasKernel(WDIM, Path[path].rank)
               THEN pc' = "kernel" /\ path' = path
               ELSE pc' = "paths" /\ path' = path + 1
       /\ pc' = "done" =>
            \A q \in rank .. (npaths - 1) :
                HasKernel(WDIM, Path[q].rank) =>
                    SweptSeq(q, 1)' = WalkFrom(L, Path[q].start, Path[q].end)]_vars

\* a call has returned in which an alpha and the D (j,j) of a column became
\* non-positive: the kernel call that swept the column last swept a column
\* above it afterwards, and a later descriptor was swept too
ContinuesOnFailureWitness ==
    /\ pc = "done"
    /\ AlphaNonPositive
    /\ \E c \in 0 .. (N - 1), t \in 1 .. Len(trace) :
        /\ NonPositive(c)
        /\ trace[t].op = "sweep"
        /\ c \in Range(trace[t].cols)
        /\ \A u \in (t + 1) .. Len(trace) : c \notin Range(trace[u].cols)
        /\ \E u \in (t + 1) .. Len(trace) :
            trace[u].op = "sweep" /\ trace[u].path = trace[t].path
        /\ \E u \in (t + 1) .. Len(trace) :
            trace[u].op = "sweep" /\ trace[u].path > trace[t].path

\* Lx [p_c] of each fused column c of cols, a slot of that column
RowSlots(cols, ps) == [c \in 1 .. Len(ps) |-> <<cols[c], ps[c]>>]

RECURSIVE RowsFrom(_, _, _)
\* the slots of the n rows at ps, ps + 1, ..., ps + (n - 1), in turn
RowsFrom(cols, ps, n) ==
    IF n <= 0 THEN <<>>
    ELSE RowSlots(cols, ps) \o RowsFrom(cols, Advance(ps, Len(ps)), n - 1)

RECURSIVE SingleLoopSlots(_, _, _)
\* for ( ; p0 < pend ; p0 += 4): Lx [p0], Lx [p0+1], Lx [p0+2], Lx [p0+3]
SingleLoopSlots(cols, p0, pend) ==
    IF p0 >= pend THEN <<>>
    ELSE RowsFrom(cols, <<p0>>, 4) \o SingleLoopSlots(cols, p0 + 4, pend)

RECURSIVE DualLoopSlots(_, _, _)
\* for ( ; p0 < pend ; p0 += 2, p1 += 2): Lx [p0], Lx [p1], Lx [p0+1], Lx [p1+1]
DualLoopSlots(cols, ps, pend) ==
    IF ps[1] >= pend THEN <<>>
    ELSE RowsFrom(cols, ps, 2) \o DualLoopSlots(cols, <<ps[1] + 2, ps[2] + 2>>, pend)

RECURSIVE QuadLoopSlots(_, _, _)
\* for ( ; p0 < pend ; p0++, p1++, p2++, p3++): Lx [p0], Lx [p1], Lx [p2], Lx [p3]
QuadLoopSlots(cols, ps, pend) ==
    IF ps[1] >= pend THEN <<>>
    ELSE RowsFrom(cols, ps, 1)
         \o QuadLoopSlots(cols, <<ps[1] + 1, ps[2] + 1, ps[3] + 1, ps[4] + 1>>, pend)

\* SingleOff with a slip: no cleanup, the loop starts at the first row
SingleOffNoCleanup(cols, ps, lnz) ==
    SingleLoopSlots(cols, ps[1] + 1, ps[1] + lnz)

\* The entries below the diagonal that an iteration reads and rewrites, in
\* turn, each with its column; ps are the Lp of the columns cols and lnz is
\* Lnz of the first.  One column: switch ((lnz - 1) % 4), then the loop.
SingleOff(cols, ps, lnz) ==
    RowsFrom(cols, <<ps[1] + 1>>, (lnz - 1) % 4)
    \o SingleLoopSlots(cols, ps[1] + 1 + ((lnz - 1) % 4), ps[1] + lnz)

\* two columns: L (j1,j), the cleanup iteration if ((lnz - 2) % 2), the loop
DualOff(cols, ps, lnz) ==
    <<<<cols[1], ps[1] + 1>>>>
    \o RowsFrom(cols, <<ps[1] + 2, ps[2] + 1>>, (lnz - 2) % 2)
    \o DualLoopSlots(cols, <<ps[1] + 2 + ((lnz - 2) % 2), ps[2] + 1 + ((lnz - 2) % 2)>>,
                     ps[1] + lnz)

\* four columns: L (j1,j), L (j2,j), L (j2,j1), L (j3,j), L (j3,j1), L (j3,j2),
\* the loop
QuadOff(cols, ps, lnz) ==
    <<<<cols[1], ps[1] + 1>>,
      <<cols[1], ps[1] + 2>>, <<cols[2], ps[2] + 1>>,
      <<cols[1], ps[1] + 3>>, <<cols[2], ps[2] + 2>>, <<cols[3], ps[3] + 1>>>>
    \o QuadLoopSlots(cols, <<ps[1] + 4, ps[2] + 3, ps[3] + 2, ps[4] + 1>>, ps[1] + lnz)

\* the entries the iteration at column jj reads and rewrites: diag, where
\* ALPHA_GAMMA is applied, and off, below the diagonals
SlotsOf(LL, jj, ee) ==
    IF CanFuseTwo(LL, jj, ee)
    THEN IF CanFuseFour(LL, jj, ee)
         THEN [diag |-> <<LL.p[jj], LL.p[Parent(LL, jj)], LL.p[RowAfter(LL, jj, 2)],
                          LL.p[RowAfter(LL, jj, 3)]>>,
               off  |-> QuadOff(<<jj, Parent(LL, jj), RowAfter(LL, jj, 2),
                                  RowAfter(LL, jj, 3)>>,
                                <<LL.p[jj], LL.p[Parent(LL, jj)],
                                  LL.p[RowAfter(LL, jj, 2)], LL.p[RowAfter(LL, jj, 3)]>>,
                                LL.nz[jj])]
         ELSE [diag |-> <<LL.p[jj], LL.p[Parent(LL, jj)]>>,
               off  |-> DualOff(<<jj, Parent(LL, jj)>>,
                                <<LL.p[jj], LL.p[Parent(LL, jj)]>>, LL.nz[jj])]
    ELSE [diag |-> <<LL.p[jj]>>,
          off  |-> SingleOff(<<jj>>, <<LL.p[jj]>>, LL.nz[jj])]

\* how many times x occurs in s
Count(s, x) == Cardinality({q \in 1 .. Len(s) : s[q] = x})

\* off holds every entry below the diagonal of n columns once and nothing
\* else; column c has lnz - c + 1 entries
CoversOnce(off, cols, ps, lnz, n) ==
    /\ \A c \in 1 .. n :
        \A p \in (ps[c] + 1) .. (ps[c] + lnz - c) : Count(off, <<cols[c], p>>) = 1
    /\ \A q \in 1 .. Len(off) :
        \E c \in 1 .. n :
            /\ off[q][1] = cols[c]
            /\ off[q][2] \in (ps[c] + 1) .. (ps[c] + lnz - c)

\* a kernel state with the pattern of L on which every entry read and
\* rewritten changes: D is 1, the entries below it are 2, WC is 1, WD is zero
Probe ==
    [L      |-> [L EXCEPT !.x = [q \in DOMAIN L.x |->
                                    IF \E c \in 0 .. (N - 1) : L.p[c] = q
                                    THEN One ELSE Int2Rat(2)]],
     WC     |-> [q \in DOMAIN WC |-> One],
     WD     |-> [q \in DOMAIN WD |-> Zero],
     AlphaC |-> [q \in 0 .. 7 |-> One],
     AlphaD |-> [q \in 0 .. 7 |-> One]]

\* the iteration at j on the values of Probe
ProbeStep ==
    DynamicStep(Probe, j, e, Path[path].wfirst, KernelRank(WDIM, Path[path].rank),
                [dbound |-> Zero])

\* the cleanup and the unrolled loop together hold every entry below the
\* diagonal once, for a first column of lnz entries
LoopsCoverOnce(lnz) ==
    /\ CoversOnce(SingleOff(<<0>>, <<0>>, lnz), <<0>>, <<0>>, lnz, 1)
    /\ lnz >= 2 =>
        CoversOnce(DualOff(<<0, 1>>, <<0, MaxLnz>>, lnz), <<0, 1>>, <<0, MaxLnz>>, lnz, 2)
    /\ lnz >= 4 =>
        CoversOnce(QuadOff(<<0, 1, 2, 3>>, <<0, MaxLnz, 2 * MaxLnz, 3 * MaxLnz>>, lnz),
                   <<0, 1, 2, 3>>, <<0, MaxLnz, 2 * MaxLnz, 3 * MaxLnz>>, lnz, 4)

\* the iteration that has swept cols has read and rewritten the entries a of
\* the factor, once each, LL the factor it leaves and PL the factor it leaves
\* on the values of Probe
SweptOnce(a, cols, LL, PL) ==
    /\ a.diag = [q \in 1 .. Len(cols) |-> L.p[cols[q]]]
    /\ CoversOnce(a.off, cols, a.diag, L.nz[j], Len(cols))
    /\ \A q \in 1 .. Len(cols) :
        L.nz[cols[q]] = L.nz[j] - q + 1 \/ (Len(cols) = 1 /\ q = 1)
    /\ \A p \in DOMAIN L.x :
        LL.x[p] # L.x[p] =>
            \/ \E q \in 1 .. Len(a.diag) : a.diag[q] = p
            \/ \E q \in 1 .. Len(a.off) : a.off[q][2] = p
    /\ \A q \in 1 .. Len(a.diag) : PL.x[a.diag[q]] # One
    /\ \A q \in 1 .. Len(a.off) : PL.x[a.off[q][2]] # Int2Rat(2)
    /\ \A p \in DOMAIN L.x : PL.x[p] # Probe.L.x[p] => p \in LxSlots(cols)

\* C22: an iteration applies ALPHA_GAMMA to the diagonal of each column it
\* sweeps, once and in turn, and reads and rewrites every entry below the
\* diagonal of each of them once and no other entry; the entries it changes
\* are among those, and all of those change on the values of Probe; it sweeps
\* no column that an earlier iteration of the call has swept.  The cleanup
\* and the unrolled loop together hold every entry once for every lnz up to
\* MaxLnz: (lnz - 1) % 4 rows and groups of four, (lnz - 2) % 2 rows and
\* pairs, and one row at a time.
ExactlyOnce ==
    [][Sweeping =>
            /\ SweptOnce(SlotsOf(L, j, e), Swept.cols, L', ProbeStep.st.L)
            /\ Range(Swept.cols) \cap visited = {}
            /\ \A lnz \in 1 .. MaxLnz : LoopsCoverOnce(lnz)]_vars

\* a kernel call has swept two columns together, the first of five entries (a
\* cleanup row and a pair of rows), and then one column alone whose rows are
\* all cleanup rows
ExactlyOnceWitness ==
    /\ pc = "kernel"
    /\ \E t \in 1 .. Len(trace), u \in 1 .. Len(trace) :
        /\ trace[t].path = path
        /\ trace[u].path = path
        /\ Len(trace[t].cols) = 2
        /\ L.nz[trace[t].cols[1]] = 5
        /\ Len(trace[u].cols) = 1
        /\ L.nz[trace[u].cols[1]] = 3
    /\ L.x # L0.x

\* what a sweep of the columns cols may write, old the kernel's state before
\* it and new after it: Lx in the slots of cols, W in the rows of cols and the
\* columns of the slice, alpha in the slice, and nothing of Lp, Li and Lnz
Frame(old, new, cols) ==
    /\ new.L.p = old.L.p /\ new.L.i = old.L.i /\ new.L.nz = old.L.nz
    /\ \A p \in DOMAIN old.L.x : new.L.x[p] # old.L.x[p] => p \in LxSlots(cols)
    /\ \A q \in DOMAIN old.WC :
        (new.WC[q] # old.WC[q] \/ new.WD[q] # old.WD[q]) => q \in WSlots(cols)
    /\ \A k \in 0 .. 7 :
        (new.AlphaC[k] # old.AlphaC[k] \/ new.AlphaD[k] # old.AlphaD[k]) => InSlice(k)

\* what the kernel call of the descriptor in hand makes of the state
WholeCall ==
    Dynamic(Cur, Path[path].start, Path[path].end, Path[path].wfirst,
            KernelRank(WDIM, Path[path].rank), Common)

\* C23: the kernel call of a descriptor leaves everything as it was but Lx
\* in the columns on the path from start to end, W in the rows of those
\* columns (their own and those of their entries below the diagonal) and the
\* columns wfirst .. wfirst + rank - 1, and alpha at wfirst .. wfirst + rank
\* - 1; so does each of its iterations, for the columns it sweeps, which are
\* on that path; the call and the return write nothing, and a call with
\* start > end changes nothing at all.
CallFrame ==
    [][/\ (pc = "paths" /\ pc' = "kernel") =>
            /\ Frame(Cur, WholeCall, WalkFrom(L, Path[path].start, Path[path].end))
            /\ EmptyDesc(path) => WholeCall = Cur
            /\ UNCHANGED <<L, WC, WD, AlphaC, AlphaD, Common, C, D, Path>>
       /\ Sweeping =>
            /\ Range(Swept.cols) \subseteq
                    Range(WalkFrom(L, Path[path].start, Path[path].end))
            /\ Frame(Cur, Cur', Swept.cols)
            /\ UNCHANGED <<Common, C, D, Path>>
       /\ (pc = "kernel" /\ ~Sweeping) =>
            /\ pc' = "paths"
            /\ UNCHANGED <<L, WC, WD, AlphaC, AlphaD, Common, C, D, Path>>
       /\ (pc = "kernel" /\ EmptyDesc(path)) => ~Sweeping]_vars

\* a kernel call of rank 1 with wfirst 1 and a W of two columns is about to
\* return: it has swept some columns and not others, has changed Lx and its
\* alpha, and column 0 of W still holds an entry
CallFrameWitness ==
    /\ pc = "kernel"
    /\ j > e
    /\ WDIM = 2
    /\ Path[path].wfirst = 1
    /\ Path[path].rank = 1
    /\ visited # {}
    /\ \E c \in 0 .. (N - 1) : c \notin visited
    /\ \E p \in LxSlots(SweptSeq(path, 1)) : L.x[p] # L0.x[p]
    /\ IsFinite(AlphaC[1]) /\ AlphaC[1] # One
    /\ \E i \in 0 .. (N - 1) : WC[WDIM * i] # Zero

\* The entries of Li of column jj that the iteration at jj reads to find the
\* columns above it: parent = (lnz > 1) ? (Li [p0]) : Int_max, then j2 =
\* (lnz > 2) ? (Li [p0+1]) : Int_max and j3 = (lnz > 3) ? (Li [p0+2]) : Int_max
\* if two columns are fused, then parent = (lnz > 4) ? (Li [p0+2]) : Int_max
\* if four are; p0 is Lp [jj] + 1, and Lp [jj] + 2 for the last
LiReads(LL, jj, ee) ==
    (IF LL.nz[jj] > 1 THEN <<<<jj, LL.p[jj] + 1>>>> ELSE <<>>)
    \o (IF CanFuseTwo(LL, jj, ee)
        THEN (IF LL.nz[jj] > 2 THEN <<<<jj, LL.p[jj] + 2>>>> ELSE <<>>)
             \o (IF LL.nz[jj] > 3 THEN <<<<jj, LL.p[jj] + 3>>>> ELSE <<>>)
        ELSE <<>>)
    \o (IF CanFuseTwo(LL, jj, ee) /\ CanFuseFour(LL, jj, ee) /\ LL.nz[jj] > 4
        THEN <<<<jj, LL.p[jj] + 4>>>> ELSE <<>>)

\* The values the iteration at jj uses as an index into Lp, Lnz or the rows
\* of W: j; parent in Lnz [parent] after parent <= e; j1 if two columns are
\* fused; j2 and j3 in Lnz [j2], Lnz [j3] after j2 <= e and j3 <= e, and as
\* columns if four are fused; the rows Li [p0] of the row loops
IndexUses(LL, jj, ee) ==
    {jj}
    \cup (IF Parent(LL, jj) <= ee THEN {Parent(LL, jj)} ELSE {})
    \cup (IF CanFuseTwo(LL, jj, ee) /\ RowAfter(LL, jj, 2) <= ee
             /\ RowAfter(LL, jj, 3) <= ee
          THEN {RowAfter(LL, jj, 2), RowAfter(LL, jj, 3)} ELSE {})
    \cup {LL.i[SlotsOf(LL, jj, ee).off[q][2]] : q \in 1 .. Len(SlotsOf(LL, jj, ee).off)}

\* slot p is an entry of column c
InColumn(LL, c, p) == LL.p[c] <= p /\ p < LL.p[c] + LL.nz[c]

\* the look-aheads of the unrolled loops of a first column of lnz entries at
\* 0 stay inside the columns: SingleOff reads p0 .. p0+3, DualOff p0, p0+1,
\* p1 and p1+1
LookAheadsInside(lnz) ==
    /\ \A q \in 1 .. Len(SingleOff(<<0>>, <<0>>, lnz)) :
        SingleOff(<<0>>, <<0>>, lnz)[q][2] \in 1 .. (lnz - 1)
    /\ lnz >= 2 =>
        \A q \in 1 .. Len(DualOff(<<0, 1>>, <<0, MaxLnz>>, lnz)) :
            DualOff(<<0, 1>>, <<0, MaxLnz>>, lnz)[q][2] \in
                IF DualOff(<<0, 1>>, <<0, MaxLnz>>, lnz)[q][1] = 0
                THEN 1 .. (lnz - 1) ELSE (MaxLnz + 1) .. (MaxLnz + lnz - 2)

\* the accesses a of the iteration at j, and the Li it reads, are inside
\* their columns; what it uses as an index is a row of the factor
AccessesInside(a, reads, uses, cols) ==
    /\ \A q \in 1 .. Len(a.diag) : InColumn(L, cols[q], a.diag[q])
    /\ \A q \in 1 .. Len(a.off) : InColumn(L, a.off[q][1], a.off[q][2])
    /\ \A q \in 1 .. Len(reads) : InColumn(L, reads[q][1], reads[q][2])
    /\ uses \subseteq 0 .. (N - 1)
    /\ Range(cols) \subseteq uses
    /\ Range(cols) \subseteq {j} \cup {L.i[reads[q][2]] : q \in 1 .. Len(reads)}

\* C24: in a factor whose columns have their diagonal first, ascending rows
\* and the elimination-tree structure, every Lx [p] and Li [p] an iteration
\* reads or writes is an entry of the column it is read for, the look-aheads
\* of the unrolled loops included (for every lnz up to MaxLnz); every value
\* it uses as an index into Lp, Lnz or W is a row of the factor, never
\* Int_max; the column it goes on to is one that it has read from Li, or is
\* Int_max, which is above e and ends the call.
IndexSafety ==
    [][(Sweeping /\ RowsAscending(L) /\ EtreeStructure(L)) =>
            /\ AccessesInside(SlotsOf(L, j, e), LiReads(L, j, e), IndexUses(L, j, e),
                              Swept.cols)
            /\ j' \in {Int_max} \cup {L.i[LiReads(L, j, e)[q][2]] :
                                        q \in 1 .. Len(LiReads(L, j, e))}
            /\ j' = Int_max => j' > e
            /\ j' <= e => j' \in 0 .. (N - 1)
            /\ \A lnz \in 1 .. MaxLnz : LookAheadsInside(lnz)]_vars

\* a kernel call of a factor with the elimination-tree structure has fused
\* two columns where there was no j3 (it was Int_max) and is at its end, at
\* the parent Int_max of a column that has none
IndexSafetyWitness ==
    /\ pc = "kernel"
    /\ j = Int_max
    /\ RowsAscending(L)
    /\ EtreeStructure(L)
    /\ L.x # L0.x
    /\ \E t \in 1 .. Len(trace) :
        /\ trace[t].op = "sweep"
        /\ Len(trace[t].cols) = 2
        /\ L.nz[trace[t].cols[1]] \in {2, 3}
====
